---- MODULE Spec2Model ----
(***************************************************************************)
(* PyAthena: the cursor's query submission / polling / cancellation state  *)
(* machine with the result-reuse cache lookup (pyathena/common.py,         *)
(* pyathena/cursor.py and their asyncio twins in pyathena/aio/).           *)
(*                                                                         *)
(* One cursor talks to one remote query service.  A call of execute is     *)
(* split where the code can block or be pre-empted: at every remote call   *)
(* and at the poll sleep.  Between two such points the service may change  *)
(* the state of an execution, the clock may advance and the caller's       *)
(* environment may interrupt (KeyboardInterrupt in the blocking cursor,    *)
(* asyncio.CancelledError at an await in the asyncio cursor).              *)
(*                                                                         *)
(* Conventions: None is 0 for an id or a page token and the empty          *)
(* sequence for an optional object; a remote call wrapped by               *)
(* retry_api_call either returns or, once the retry budget is spent,       *)
(* raises, and the model draws that final result nondeterministically.     *)
(***************************************************************************)
EXTENDS Integers, Sequences, FiniteSets, TLC

\* ---------------------------------------------------------------- bounds
\* executions the service accepts in one behaviour; it rejects further ones
MaxExecs == 1
\* last value of the wall clock
MaxTime == 2
\* GetExecution calls explored within one poll
MaxPolls == 3
\* largest cache_size / cache_expiration_time argument explored
MaxCacheSize == 1
MaxCacheExpiration == 1
\* most data rows in an execution's result
MaxRows == 3
\* largest arraysize a cursor is constructed with
MaxArraysize == 2
\* most parameter sets passed to one executemany
MaxParams == 2
\* largest UpdateCount a first page reports
MaxUpdateCount == 2
\* most items in a cell of an array column
MaxItems == 2
\* executions in the history a cache lookup is run on, and the largest
\* cache_size it is given
MaxHistory == 3
MaxBudget == 3
\* thread-offloaded mode: execute calls made on the cursor, and the threads
\* of its worker pool (the max_workers argument)
MaxFutures == 2
max_workers == 1

\* ------------------------------------------------------ program constants
\* BaseCursor.LIST_QUERY_EXECUTIONS_MAX_RESULTS is 50 in the source; the
\* model scales the page size down so that the lookup pages over a history
\* of MaxExecs executions.
LIST_QUERY_EXECUTIONS_MAX_RESULTS == 1
\* sys.maxsize, narrowed to the integers TLC computes with
maxsize == 2147483647
\* CursorIterator.DEFAULT_FETCH_SIZE, the arraysize of a cursor constructed
\* without one
DEFAULT_FETCH_SIZE == 1000

STATE_QUEUED == "QUEUED"
STATE_RUNNING == "RUNNING"
STATE_SUCCEEDED == "SUCCEEDED"
STATE_FAILED == "FAILED"
STATE_CANCELLED == "CANCELLED"
STATEMENT_TYPE_DML == "DML"
STATEMENT_TYPE_DDL == "DDL"

TerminalStates == {STATE_SUCCEEDED, STATE_FAILED, STATE_CANCELLED}

Queries == {"SELECT 1", "CREATE TABLE t"}
\* a second DML text, found in the history of other clients
OtherQuery == "SELECT 2"

Min(a, b) == IF a < b THEN a ELSE b

VARIABLES
    execs,            \* service: the accepted executions, execs[id]
    now,              \* service and client wall clock
    pc,               \* cursor: control point of the running execute
    op,               \* cursor: arguments of the running execute still to be used
    kill_on_interrupt,         \* cursor: self._kill_on_interrupt
    on_start_query_execution,  \* cursor: self._on_start_query_execution is set
    query_id,         \* cursor: self.query_id
    result_set,       \* cursor: self.result_set
    query_execution,  \* poll: the snapshot fetched last
    resumed,          \* _poll: the except branch has been entered
    outcome,          \* what the last execute gave its caller
    calls,            \* remote calls and callbacks the running execute issued
    warning_enabled,  \* logging: _logger emits records of level WARNING
    open_result_sets, \* result set objects constructed and not closed so far
    table,            \* service: the rows an execution's result consists of
    arraysize,        \* cursor: self._arraysize
    many,             \* caller: the executemany call in progress, if any
    fetched,          \* what the last fetch, cancel or close call gave its caller
    futures,          \* thread-offloaded cursor: the tasks its execute calls submitted
    args,             \* a function called on its own: its name and arguments
    result            \* what that call gave, once it has been made

vars == <<execs, now, pc, op, kill_on_interrupt, on_start_query_execution,
          query_id, result_set, query_execution, resumed, outcome, calls,
          warning_enabled, open_result_sets, table, arraysize, many, fetched,
          futures, args, result>>

\* ------------------------------------------------------------ the service
\* the statement type the service derives from the query text
StatementType(q) ==
    IF q \in {"SELECT 1", OtherQuery} THEN STATEMENT_TYPE_DML ELSE STATEMENT_TYPE_DDL

\* StateChangeReason of an execution that ended in state s ("" is None)
StateChangeReason(s) ==
    CASE s = STATE_FAILED -> "SYNTAX_ERROR: line 1"
      [] s = STATE_CANCELLED -> "Query cancelled by user"
      [] OTHER -> ""

\* the record StartQueryExecution creates for query text q
NewExecution(q) ==
    [query |-> q, statement_type |-> StatementType(q), state |-> STATE_QUEUED,
     state_change_reason |-> "", completion_date_time |-> -1]

\* GetQueryExecution / BatchGetQueryExecution: the AthenaQueryExecution
\* snapshot of execution id
Snapshot(id) ==
    [query_id |-> id, query |-> execs[id].query,
     statement_type |-> execs[id].statement_type, state |-> execs[id].state,
     state_change_reason |-> execs[id].state_change_reason,
     completion_date_time |-> execs[id].completion_date_time]

\* ListQueryExecutions lists the most recent execution first; a page token is
\* the number of ids already listed plus one.  _list_query_executions returns
\* (NextToken, batch-get snapshots of the listed ids).
ListedId(k) == Len(execs) + 1 - k

_list_query_executions(next_token, max_results) ==
    LET first == IF next_token = 0 THEN 1 ELSE next_token
        last == Min(first + max_results - 1, Len(execs))
    IN [next_token |-> IF last < Len(execs) THEN last + 1 ELSE 0,
        query_executions |-> [k \in 1..(last - first + 1) |-> Snapshot(ListedId(first + k - 1))]]

\* ------------------------------------------------------- the cache lookup
\* the generator in sorted(...): SUCCEEDED executions of DML statement type
RECURSIVE SucceededDml(_)
SucceededDml(es) ==
    IF es = <<>> THEN <<>>
    ELSE IF Head(es).state = STATE_SUCCEEDED /\ Head(es).statement_type = STATEMENT_TYPE_DML
         THEN <<Head(es)>> \o SucceededDml(Tail(es))
         ELSE SucceededDml(Tail(es))

\* sorted(..., key=completion_date_time, reverse=True): a stable sort, equal
\* keys keep their order
RECURSIVE InsertDesc(_, _)
InsertDesc(e, sorted) ==
    IF sorted = <<>> THEN <<e>>
    ELSE IF e.completion_date_time >= Head(sorted).completion_date_time
         THEN <<e>> \o sorted
         ELSE <<Head(sorted)>> \o InsertDesc(e, Tail(sorted))

RECURSIVE SortedDesc(_)
SortedDesc(es) ==
    IF es = <<>> THEN <<>> ELSE InsertDesc(Head(es), SortedDesc(Tail(es)))

\* a scan that never compares completion times with expiration_time
RECURSIVE ScanPageNeverExpires(_, _, _, _)
ScanPageNeverExpires(cands, query, cache_expiration_time, expiration_time) ==
    IF cands = <<>> THEN [query_id |-> 0, expired |-> FALSE]
    ELSE IF Head(cands).query = query
         THEN [query_id |-> Head(cands).query_id, expired |-> FALSE]
    ELSE ScanPageNeverExpires(Tail(cands), query, cache_expiration_time, expiration_time)

\* the for loop over one page's candidates: the id found (0: none) and
\* whether the scan met an execution older than expiration_time
RECURSIVE ScanPage(_, _, _, _)
ScanPage(cands, query, cache_expiration_time, expiration_time) ==
    IF cands = <<>> THEN [query_id |-> 0, expired |-> FALSE]
    ELSE IF cache_expiration_time > 0 /\ Head(cands).completion_date_time < expiration_time
         THEN [query_id |-> 0, expired |-> TRUE]
    ELSE IF Head(cands).query = query
         THEN [query_id |-> Head(cands).query_id, expired |-> FALSE]
    ELSE ScanPage(Tail(cands), query, cache_expiration_time, expiration_time)

\* a while loop that asks for the whole remaining budget in one page
RECURSIVE ScanHistoryUncapped(_, _, _, _, _, _)
ScanHistoryUncapped(query, cache_size, cache_expiration_time, expiration_time, next_token, pages) ==
    IF cache_size <= 0 THEN [query_id |-> 0, pages |-> pages]
    ELSE LET max_results == cache_size
             page == _list_query_executions(next_token, max_results)
             scan == ScanPage(SortedDesc(SucceededDml(page.query_executions)),
                              query, cache_expiration_time, expiration_time)
             token == IF scan.expired THEN 0 ELSE page.next_token
         IN IF scan.query_id # 0 \/ token = 0
            THEN [query_id |-> scan.query_id, pages |-> Append(pages, max_results)]
            ELSE ScanHistoryUncapped(query, cache_size - max_results, cache_expiration_time,
                                     expiration_time, token, Append(pages, max_results))

\* the while loop: cache_size is the remaining budget; pages is the
\* sequence of max_results values requested so far
RECURSIVE ScanHistory(_, _, _, _, _, _)
ScanHistory(query, cache_size, cache_expiration_time, expiration_time, next_token, pages) ==
    IF cache_size <= 0 THEN [query_id |-> 0, pages |-> pages]
    ELSE LET max_results == Min(cache_size, LIST_QUERY_EXECUTIONS_MAX_RESULTS)
             page == _list_query_executions(next_token, max_results)
             scan == ScanPage(SortedDesc(SucceededDml(page.query_executions)),
                              query, cache_expiration_time, expiration_time)
             token == IF scan.expired THEN 0 ELSE page.next_token
         IN IF scan.query_id # 0 \/ token = 0
            THEN [query_id |-> scan.query_id, pages |-> Append(pages, max_results)]
            ELSE ScanHistory(query, cache_size - max_results, cache_expiration_time,
                             expiration_time, token, Append(pages, max_results))

\* BaseCursor._find_previous_query_id when no remote call of the scan fails
_find_previous_query_id(query, cache_size, cache_expiration_time) ==
    LET size == IF cache_size = 0 /\ cache_expiration_time > 0 THEN maxsize ELSE cache_size
        expiration_time == IF cache_expiration_time > 0 THEN now - cache_expiration_time ELSE now
    IN ScanHistory(query, size, cache_expiration_time, expiration_time, 0, <<>>)

\* ---------------------------------------------------------- the result set
\* Conventions: a row is a number, 1..table.rows for the data rows in the
\* order the service holds them and 0 for a row that repeats the column
\* names; a pagination token is the position of the next row (0 is None);
\* rownumber -1 is None; fetchone returns <<row>> or <<>> for None.

\* the rows GetQueryResults pages over, a label row first if the service
\* echoes the column names
ResultRows ==
    (IF table.header THEN <<0>> ELSE <<>>) \o [k \in 1..table.rows |-> k]

\* the service's GetQueryResults(MaxResults, NextToken): the next
\* max_results rows and the token of the page after them, if any
get_query_results(max_results, next_token) ==
    LET first == IF next_token = 0 THEN 1 ELSE next_token
        last == Min(first + max_results - 1, Len(ResultRows))
    IN [rows |-> SubSeq(ResultRows, first, last),
        next_token |-> IF last < Len(ResultRows) THEN last + 1 ELSE 0]

\* AthenaResultSet._is_first_row_column_labels: the row the service puts
\* above the data, or a data row whose cells equal the column names
_is_first_row_column_labels(rows) == rows[1] = 0 \/ rows[1] \in table.labels

\* a constructor that marks every result set as ready to be read
AthenaResultSetAlwaysReady(execution, size) ==
    [query_id |-> execution.query_id, state |-> execution.state,
     connection |-> TRUE, arraysize |-> size, rows |-> <<>>, next_token |-> 0,
     rownumber |-> 0, requests |-> <<>>, delivered |-> <<>>]

\* a constructor that leaves the row number unset
AthenaResultSetNoRownumber(execution, size) ==
    [query_id |-> execution.query_id, state |-> execution.state,
     connection |-> TRUE, arraysize |-> size, rows |-> <<>>, next_token |-> 0,
     rownumber |-> -1, requests |-> <<>>, delivered |-> <<>>]

\* AthenaResultSet.__init__ before the first page: the object bound to
\* the query execution; requests and delivered record the page requests it has
\* issued (by token) and the rows it has handed out
AthenaResultSet(execution, size) ==
    [query_id |-> execution.query_id, state |-> execution.state,
     connection |-> TRUE, arraysize |-> size, rows |-> <<>>, next_token |-> 0,
     rownumber |-> IF execution.state = STATE_SUCCEEDED THEN 0 ELSE -1,
     requests |-> <<>>, delivered |-> <<>>]

\* a _pre_fetch that drops the first row whatever it holds
_pre_fetchDropsFirstRow(rs) ==
    LET response == get_query_results(rs.arraysize, 0)
    IN [rs EXCEPT !.rows = @ \o SubSeq(response.rows, 2, Len(response.rows)),
                  !.next_token = response.next_token,
                  !.requests = Append(@, 0)]

\* AthenaResultSet._pre_fetch: the first page, without its label row
_pre_fetch(rs) ==
    LET response == get_query_results(rs.arraysize, 0)
        offset == IF response.rows # <<>> /\ _is_first_row_column_labels(response.rows)
                  THEN 1 ELSE 0
    IN [rs EXCEPT !.rows = @ \o SubSeq(response.rows, offset + 1, Len(response.rows)),
                  !.next_token = response.next_token,
                  !.requests = Append(@, 0)]

\* a _fetch that looks for a row of column names as _pre_fetch does
_fetchSkipsLabels(rs) ==
    LET response == get_query_results(rs.arraysize, rs.next_token)
        offset == IF response.rows # <<>> /\ _is_first_row_column_labels(response.rows)
                  THEN 1 ELSE 0
    IN [rs EXCEPT !.rows = @ \o SubSeq(response.rows, offset + 1, Len(response.rows)),
                  !.next_token = response.next_token,
                  !.requests = Append(@, rs.next_token)]

\* AthenaResultSet._fetch: the page after next_token, appended in full
_fetch(rs) ==
    LET response == get_query_results(rs.arraysize, rs.next_token)
    IN [rs EXCEPT !.rows = @ \o response.rows,
                  !.next_token = response.next_token,
                  !.requests = Append(@, rs.next_token)]

\* a fetchone that counts the end marker as a row
fetchoneCountsEnd(rs, ok) ==
    IF rs.rows = <<>> /\ rs.next_token # 0 /\ ok = 0
    THEN [rs |-> rs, row |-> <<>>, raised |-> TRUE, ok |-> 0]
    ELSE LET fetches == rs.rows = <<>> /\ rs.next_token # 0
             r == IF fetches THEN _fetch(rs) ELSE rs
             left == IF fetches THEN ok - 1 ELSE ok
         IN IF r.rows = <<>>
            THEN [rs |-> [r EXCEPT !.rownumber = (IF @ = -1 THEN 0 ELSE @) + 1],
                  row |-> <<>>, raised |-> FALSE, ok |-> left]
            ELSE [rs |-> [r EXCEPT !.rows = Tail(@),
                                   !.rownumber = (IF @ = -1 THEN 0 ELSE @) + 1,
                                   !.delivered = Append(@, Head(r.rows))],
                  row |-> <<Head(r.rows)>>, raised |-> FALSE, ok |-> left]

\* a fetchone that pops the newest buffered row (pop instead of popleft)
fetchonePopsLast(rs, ok) ==
    IF rs.rows = <<>> /\ rs.next_token # 0 /\ ok = 0
    THEN [rs |-> rs, row |-> <<>>, raised |-> TRUE, ok |-> 0]
    ELSE LET fetches == rs.rows = <<>> /\ rs.next_token # 0
             r == IF fetches THEN _fetch(rs) ELSE rs
             left == IF fetches THEN ok - 1 ELSE ok
         IN IF r.rows = <<>>
            THEN [rs |-> r, row |-> <<>>, raised |-> FALSE, ok |-> left]
            ELSE [rs |-> [r EXCEPT !.rows = SubSeq(@, 1, Len(@) - 1),
                                   !.rownumber = (IF @ = -1 THEN 0 ELSE @) + 1,
                                   !.delivered = Append(@, r.rows[Len(r.rows)])],
                  row |-> <<r.rows[Len(r.rows)]>>, raised |-> FALSE, ok |-> left]

\* a fetchone that counts a row only when it had to request a page for it
fetchoneCountsPages(rs, ok) ==
    IF rs.rows = <<>> /\ rs.next_token # 0 /\ ok = 0
    THEN [rs |-> rs, row |-> <<>>, raised |-> TRUE, ok |-> 0]
    ELSE LET fetches == rs.rows = <<>> /\ rs.next_token # 0
             r == IF fetches THEN _fetch(rs) ELSE rs
             left == IF fetches THEN ok - 1 ELSE ok
         IN IF r.rows = <<>>
            THEN [rs |-> r, row |-> <<>>, raised |-> FALSE, ok |-> left]
            ELSE [rs |-> [r EXCEPT !.rows = Tail(@),
                                   !.rownumber = IF fetches THEN (IF @ = -1 THEN 0 ELSE @) + 1
                                                 ELSE @,
                                   !.delivered = Append(@, Head(r.rows))],
                  row |-> <<Head(r.rows)>>, raised |-> FALSE, ok |-> left]

\* a fetchone that requests the next page as soon as one row is left
fetchoneReadsAhead(rs, ok) ==
    IF Len(rs.rows) <= 1 /\ rs.next_token # 0 /\ ok = 0
    THEN [rs |-> rs, row |-> <<>>, raised |-> TRUE, ok |-> 0]
    ELSE LET fetches == Len(rs.rows) <= 1 /\ rs.next_token # 0
             r == IF fetches THEN _fetch(rs) ELSE rs
             left == IF fetches THEN ok - 1 ELSE ok
         IN IF r.rows = <<>>
            THEN [rs |-> r, row |-> <<>>, raised |-> FALSE, ok |-> left]
            ELSE [rs |-> [r EXCEPT !.rows = Tail(@),
                                   !.rownumber = (IF @ = -1 THEN 0 ELSE @) + 1,
                                   !.delivered = Append(@, Head(r.rows))],
                  row |-> <<Head(r.rows)>>, raised |-> FALSE, ok |-> left]

\* AthenaResultSet.fetchone: the result set after the call, the value
\* returned and whether the call raised; ok is the number of page requests
\* that succeed before one raises OperationalError
fetchone(rs, ok) ==
    IF rs.rows = <<>> /\ rs.next_token # 0 /\ ok = 0
    THEN [rs |-> rs, row |-> <<>>, raised |-> TRUE, ok |-> 0]
    ELSE LET fetches == rs.rows = <<>> /\ rs.next_token # 0
             r == IF fetches THEN _fetch(rs) ELSE rs
             left == IF fetches THEN ok - 1 ELSE ok
         IN IF r.rows = <<>>
            THEN [rs |-> r, row |-> <<>>, raised |-> FALSE, ok |-> left]
            ELSE [rs |-> [r EXCEPT !.rows = Tail(@),
                                   !.rownumber = (IF @ = -1 THEN 0 ELSE @) + 1,
                                   !.delivered = Append(@, Head(r.rows))],
                  row |-> <<Head(r.rows)>>, raised |-> FALSE, ok |-> left]

\* the loop of fetchmany (range(size)) and of fetchall (while True, size
\* -1): rows collects what fetchone returned so far
RECURSIVE FetchLoop(_, _, _, _)
FetchLoop(rs, size, rows, ok) ==
    IF size = 0 THEN [rs |-> rs, rows |-> rows, raised |-> FALSE]
    ELSE LET one == fetchone(rs, ok)
         IN IF one.raised THEN [rs |-> one.rs, rows |-> rows, raised |-> TRUE]
            ELSE IF one.row = <<>> THEN [rs |-> one.rs, rows |-> rows, raised |-> FALSE]
            ELSE FetchLoop(one.rs, IF size > 0 THEN size - 1 ELSE size,
                           rows \o one.row, one.ok)

\* a fetchmany that hands out buffered rows only
fetchmanyBuffered(rs, size, ok) ==
    FetchLoop(rs, Min(IF size <= 0 THEN rs.arraysize ELSE size, Len(rs.rows)), <<>>, ok)

\* AthenaResultSet.fetchmany(size)
fetchmany(rs, size, ok) ==
    FetchLoop(rs, IF size <= 0 THEN rs.arraysize ELSE size, <<>>, ok)

\* AthenaResultSet.fetchall
fetchall(rs, ok) == FetchLoop(rs, -1, <<>>, ok)

\* a close that drops the connection and keeps the buffered rows
closeKeepsRows(rs) ==
    [rs EXCEPT !.connection = FALSE, !.query_id = 0, !.state = "", !.rownumber = -1]

\* AthenaResultSet.close
close(rs) ==
    [rs EXCEPT !.connection = FALSE, !.query_id = 0, !.state = "", !.rows = <<>>,
               !.next_token = 0, !.rownumber = -1]

\* AthenaResultSet.is_closed
is_closed(rs) == ~rs.connection

\* ------------------------------------------------------------- the cursor
NoOutcome == [kind |-> "none", message |-> ""]
NoCalls == [list |-> <<>>, cached |-> 0, start |-> 0, cb |-> <<>>,
            get |-> <<>>, sleep |-> 0, stop |-> <<>>, interrupts |-> 0,
            warning |-> FALSE]
NoOperation == [query |-> "SELECT 1", cache_size |-> 0, cache_expiration_time |-> 0,
                on_start_query_execution |-> FALSE]

\* no executemany is in progress; no fetch, cancel or close has been called
NoExecutemany == [active |-> FALSE, left |-> 0, started |-> 0]
NoFetch == [call |-> "none", size |-> 0, kind |-> "none", rows |-> <<>>, stop |-> <<>>,
            closed |-> FALSE]
\* no function is called on its own
NoArgs == [fn |-> "none"]
\* the result of an execution when nothing else is said: one row under a
\* row of column names
DefaultTable == [rows |-> 1, header |-> TRUE, labels |-> {}]

\* the arguments of execute left once the cache lookup is over, and once
\* the cursor has its query id
AfterLookup(o) == [o EXCEPT !.cache_size = 0, !.cache_expiration_time = 0]
AfterSubmit(o) == [NoOperation EXCEPT !.on_start_query_execution = o.on_start_query_execution]

\* execute returns to, or raises into, its caller; its locals are gone
Return(kind, message) ==
    /\ outcome' = [kind |-> kind, message |-> message]
    /\ query_execution' = <<>>
    /\ pc' = "idle"

Init ==
    /\ execs = <<>>
    /\ now = 0
    /\ pc = "idle"
    /\ op = NoOperation
    /\ kill_on_interrupt \in BOOLEAN
    /\ on_start_query_execution \in BOOLEAN
    /\ query_id = 0
    /\ result_set = <<>>
    /\ query_execution = <<>>
    /\ resumed = FALSE
    /\ outcome = NoOutcome
    /\ calls = NoCalls
    /\ warning_enabled = FALSE
    /\ open_result_sets = 0
    /\ table = DefaultTable
    /\ arraysize = DEFAULT_FETCH_SIZE
    /\ many = NoExecutemany
    /\ fetched = NoFetch
    /\ futures = <<>>
    /\ args = NoArgs
    /\ result = <<>>

\* a cursor constructed with its defaults (kill_on_interrupt=True, no
\* on_start_query_execution callback) in a process whose logging emits
\* warnings
InitLogged ==
    /\ execs = <<>>
    /\ now = 0
    /\ pc = "idle"
    /\ op = NoOperation
    /\ kill_on_interrupt = TRUE
    /\ on_start_query_execution = FALSE
    /\ query_id = 0
    /\ result_set = <<>>
    /\ query_execution = <<>>
    /\ resumed = FALSE
    /\ outcome = NoOutcome
    /\ calls = NoCalls
    /\ warning_enabled = TRUE
    /\ open_result_sets = 0
    /\ table = DefaultTable
    /\ arraysize = DEFAULT_FETCH_SIZE
    /\ many = NoExecutemany
    /\ fetched = NoFetch
    /\ futures = <<>>
    /\ args = NoArgs
    /\ result = <<>>

\* a reset that drops the result set without closing it
ResetStateKeepsOpen ==
    /\ query_id' = 0
    /\ result_set' = <<>>
    /\ open_result_sets' = open_result_sets

\* a _reset_state that forgets the query id and keeps the result set
ResetStateKeepsResultSet ==
    /\ query_id' = 0
    /\ open_result_sets' = open_result_sets
    /\ result_set' = result_set

\* WithResultSet._reset_state: forget the id, close the result set unless
\* it is closed already, and drop it
ResetState ==
    /\ query_id' = 0
    /\ open_result_sets' = IF result_set # <<>> /\ ~is_closed(result_set[1])
                           THEN open_result_sets - 1 ELSE open_result_sets
    /\ result_set' = <<>>

\* Cursor.execute is entered: _reset_state, before anything else
Execute ==
    /\ pc = "idle"
    /\ ResetState
    /\ op' = NoOperation
    /\ query_execution' = <<>>
    /\ resumed' = FALSE
    /\ outcome' = NoOutcome
    /\ calls' = NoCalls
    /\ pc' = "execute"
    /\ UNCHANGED <<execs, now, kill_on_interrupt, on_start_query_execution>>

\* Cursor.execute calls _execute with its arguments; _prepare_query and the
\* request building are pure, the cache lookup comes next
PrepareQuery(query, cache_size, cache_expiration_time, on_start) ==
    /\ pc = "execute"
    /\ op' = [query |-> query, cache_size |-> cache_size,
              cache_expiration_time |-> cache_expiration_time,
              on_start_query_execution |-> on_start]
    /\ pc' = "find"
    /\ UNCHANGED <<open_result_sets, execs, now, kill_on_interrupt, on_start_query_execution, query_id,
                   result_set, query_execution, resumed, outcome, calls>>

\* an _execute that submits the query although the lookup found an id
FindPreviousQueryIdIgnored ==
    /\ pc = "find"
    /\ LET found == _find_previous_query_id(op.query, op.cache_size, op.cache_expiration_time)
       IN calls' = [calls EXCEPT !.list = found.pages, !.cached = found.query_id]
    /\ pc' = "start"
    /\ op' = AfterLookup(op)
    /\ UNCHANGED <<open_result_sets, execs, now, kill_on_interrupt, on_start_query_execution,
                   query_id, result_set, query_execution, resumed, outcome>>

\* _execute: the cache lookup returns; an id found is returned by _execute
\* and assigned to self.query_id, otherwise the query is submitted
FindPreviousQueryId ==
    /\ pc = "find"
    /\ LET found == _find_previous_query_id(op.query, op.cache_size, op.cache_expiration_time)
       IN /\ calls' = [calls EXCEPT !.list = found.pages, !.cached = found.query_id]
          /\ IF found.query_id # 0
             THEN query_id' = found.query_id /\ pc' = "on_start" /\ op' = AfterSubmit(op)
             ELSE query_id' = query_id /\ pc' = "start" /\ op' = AfterLookup(op)
    /\ UNCHANGED <<open_result_sets, execs, now, kill_on_interrupt, on_start_query_execution,
                   result_set, query_execution, resumed, outcome>>

\* a lookup that lets the failure of its scan reach the caller of execute
FindPreviousQueryIdRaises ==
    /\ pc = "find"
    /\ op.cache_size > 0 \/ op.cache_expiration_time > 0
    /\ calls' = [calls EXCEPT !.list = <<Min(IF op.cache_size = 0 THEN maxsize ELSE op.cache_size,
                                              LIST_QUERY_EXECUTIONS_MAX_RESULTS)>>]
    /\ Return("OperationalError", "list_query_executions failed")
    /\ op' = NoOperation
    /\ UNCHANGED <<open_result_sets, execs, now, kill_on_interrupt, on_start_query_execution,
                   query_id, result_set, resumed>>

\* _find_previous_query_id: a list or batch-get call of the scan raises; the
\* except clause logs a warning and the lookup returns None
FindPreviousQueryIdFails ==
    /\ pc = "find"
    /\ op.cache_size > 0 \/ op.cache_expiration_time > 0
    /\ calls' = [calls EXCEPT !.list = <<Min(IF op.cache_size = 0 THEN maxsize ELSE op.cache_size,
                                              LIST_QUERY_EXECUTIONS_MAX_RESULTS)>>,
                              !.warning = warning_enabled]
    /\ pc' = "start"
    /\ op' = AfterLookup(op)
    /\ UNCHANGED <<open_result_sets, execs, now, kill_on_interrupt, on_start_query_execution,
                   query_id, result_set, query_execution, resumed, outcome>>

\* an execute that drops the id start_query_execution returned
StartQueryExecutionDropsId ==
    /\ pc = "start"
    /\ Len(execs) < MaxExecs
    /\ execs' = Append(execs, NewExecution(op.query))
    /\ calls' = [calls EXCEPT !.start = @ + 1]
    /\ pc' = "on_start"
    /\ op' = AfterSubmit(op)
    /\ UNCHANGED <<open_result_sets, now, kill_on_interrupt, on_start_query_execution, query_id,
                   result_set, query_execution, resumed, outcome>>

\* _execute: start_query_execution returns the new id, which execute
\* assigns to self.query_id
StartQueryExecution ==
    /\ pc = "start"
    /\ Len(execs) < MaxExecs
    /\ execs' = Append(execs, NewExecution(op.query))
    /\ query_id' = Len(execs) + 1
    /\ calls' = [calls EXCEPT !.start = @ + 1]
    /\ pc' = "on_start"
    /\ op' = AfterSubmit(op)
    /\ UNCHANGED <<open_result_sets, now, kill_on_interrupt, on_start_query_execution,
                   result_set, query_execution, resumed, outcome>>

\* _execute: start_query_execution raises (a rejected query included)
StartQueryExecutionFails ==
    /\ pc = "start"
    /\ calls' = [calls EXCEPT !.start = @ + 1]
    /\ Return("DatabaseError", "start_query_execution failed")
    /\ op' = NoOperation
    /\ UNCHANGED <<open_result_sets, execs, now, kill_on_interrupt, on_start_query_execution,
                   query_id, result_set, resumed>>

\* a callback invoked before the id is assigned
CallbackWithoutId(who) == [who |-> who, query_id |-> 0, polls |-> Len(calls.get)]

\* one invocation of a callback with self.query_id
Callback(who) == [who |-> who, query_id |-> query_id, polls |-> Len(calls.get)]

\* execute: if self._on_start_query_execution: call it with self.query_id
OnStartCursor ==
    /\ pc = "on_start"
    /\ calls' = IF on_start_query_execution
                THEN [calls EXCEPT !.cb = Append(@, Callback("cursor"))]
                ELSE calls
    /\ pc' = "on_start_execute"
    /\ UNCHANGED <<open_result_sets, execs, now, op, kill_on_interrupt, on_start_query_execution,
                   query_id, result_set, query_execution, resumed, outcome>>

\* execute: if on_start_query_execution: call it with self.query_id; then
\* _poll(self.query_id) is entered
OnStartExecute ==
    /\ pc = "on_start_execute"
    /\ calls' = IF op.on_start_query_execution
                THEN [calls EXCEPT !.cb = Append(@, Callback("execute"))]
                ELSE calls
    /\ pc' = "get"
    /\ op' = NoOperation
    /\ UNCHANGED <<open_result_sets, execs, now, kill_on_interrupt, on_start_query_execution,
                   query_id, result_set, query_execution, resumed, outcome>>

\* a poll that also returns a RUNNING execution
PollReturnsRunning(state) == state # STATE_QUEUED

\* __poll: the test that ends the loop
PollReturns(state) == state \in {STATE_SUCCEEDED, STATE_FAILED, STATE_CANCELLED}

\* a poll with a timeout: it gives up after its first sleep
AfterFetchTimeout(state) ==
    IF state \in TerminalStates \/ calls.sleep >= 1 THEN "polled" ELSE "sleep"

\* a poll that fetches again without sleeping
AfterFetchNoSleep(state) == IF state \in TerminalStates THEN "polled" ELSE "get"

\* __poll: where the loop goes after a status fetch that returned state
AfterFetch(state) == IF PollReturns(state) THEN "polled" ELSE "sleep"

\* __poll: _get_query_execution(query_id) returns a snapshot; the loop
\* returns it when its state is terminal and goes to sleep otherwise
GetQueryExecution ==
    /\ pc = "get"
    /\ query_execution' = <<Snapshot(query_id)>>
    /\ calls' = [calls EXCEPT !.get = Append(@, [query_id |-> query_id,
                                                  state |-> execs[query_id].state])]
    /\ pc' = AfterFetch(execs[query_id].state)
    /\ UNCHANGED <<open_result_sets, execs, now, op, kill_on_interrupt, on_start_query_execution,
                   query_id, result_set, resumed, outcome>>

\* _get_query_execution: get_query_execution raises after its retries
GetQueryExecutionFails ==
    /\ pc = "get"
    /\ calls' = [calls EXCEPT !.get = Append(@, [query_id |-> query_id, state |-> "error"])]
    /\ Return("OperationalError", "get_query_execution failed")
    /\ UNCHANGED <<open_result_sets, execs, now, op, kill_on_interrupt, on_start_query_execution,
                   query_id, result_set, resumed>>

\* __poll: time.sleep(self._poll_interval) returns and the loop fetches again
Sleep ==
    /\ pc = "sleep"
    /\ Len(calls.get) < MaxPolls
    /\ calls' = [calls EXCEPT !.sleep = @ + 1]
    /\ pc' = "get"
    /\ UNCHANGED <<open_result_sets, execs, now, op, kill_on_interrupt, on_start_query_execution,
                   query_id, result_set, query_execution, resumed, outcome>>

\* a handler that never cancels / that always cancels
OnInterruptRaise(kill) == "raise"
OnInterruptCancel(kill) == "cancel"

\* _poll: where an interruption of the try block goes
OnInterrupt(kill) == IF kill THEN "cancel" ELSE "raise"

\* a _poll whose handler also catches the interruptions of its own cancel
\* call and second __poll
InterruptCaughtAgain ==
    /\ pc \in {"get", "sleep", "cancel"}
    /\ calls' = [calls EXCEPT !.interrupts = @ + 1]
    /\ IF OnInterrupt(kill_on_interrupt) = "cancel"
       THEN /\ pc' = "cancel"
            /\ resumed' = TRUE
            /\ UNCHANGED <<outcome, query_execution>>
       ELSE /\ Return("Interrupted", "")
            /\ resumed' = resumed
    /\ UNCHANGED <<open_result_sets, execs, now, op, kill_on_interrupt, on_start_query_execution,
                   query_id, result_set>>

\* The caller's environment interrupts the poll.  Inside the try block of
\* _poll the except clause takes it: with kill_on_interrupt it goes on to
\* cancel, otherwise it re-raises.  Inside the except clause (the cancel
\* call, the second __poll) nothing catches it.
Interrupt ==
    /\ pc \in {"get", "sleep", "cancel"}
    /\ calls' = [calls EXCEPT !.interrupts = @ + 1]
    /\ IF ~resumed /\ OnInterrupt(kill_on_interrupt) = "cancel"
       THEN /\ pc' = "cancel"
            /\ resumed' = TRUE
            /\ UNCHANGED <<outcome, query_execution>>
       ELSE /\ Return("Interrupted", "")
            /\ resumed' = resumed
    /\ UNCHANGED <<open_result_sets, execs, now, op, kill_on_interrupt, on_start_query_execution,
                   query_id, result_set>>

\* _poll, except clause: _cancel(query_id) returns and __poll(query_id) is
\* entered again
StopQueryExecution ==
    /\ pc = "cancel"
    /\ calls' = [calls EXCEPT !.stop = Append(@, query_id)]
    /\ pc' = "get"
    /\ UNCHANGED <<open_result_sets, execs, now, op, kill_on_interrupt, on_start_query_execution,
                   query_id, result_set, query_execution, resumed, outcome>>

\* _cancel: stop_query_execution raises after its retries
StopQueryExecutionFails ==
    /\ pc = "cancel"
    /\ calls' = [calls EXCEPT !.stop = Append(@, query_id)]
    /\ Return("OperationalError", "stop_query_execution failed")
    /\ UNCHANGED <<open_result_sets, execs, now, op, kill_on_interrupt, on_start_query_execution,
                   query_id, result_set, resumed>>

\* an execute that raises for FAILED only / for CANCELLED only
BuildsResultSetUnlessFailed(state) == state # STATE_FAILED
BuildsResultSetUnlessCancelled(state) == state # STATE_CANCELLED

\* an execute that constructs a result set for whatever state _poll returned
BuildsResultSetForAnyState(state) == state \in TerminalStates

\* execute: the test on the state _poll returned
BuildsResultSet(state) == state = STATE_SUCCEEDED

\* execute: the state is SUCCEEDED and the result set is constructed (its
\* constructor fetches the first page) and bound to the execution
BuildResultSet ==
    /\ pc = "polled"
    /\ BuildsResultSet(query_execution[1].state)
    /\ result_set' = <<_pre_fetch(AthenaResultSet(query_execution[1], arraysize))>>
    /\ open_result_sets' = open_result_sets + 1
    /\ Return("returned", "")
    /\ UNCHANGED <<execs, now, op, kill_on_interrupt, on_start_query_execution,
                   query_id, resumed, calls>>

\* AthenaResultSet.__get_query_results: the first page request raises, the
\* constructor does not return, self.result_set stays None and nothing
\* refers to the object
BuildResultSetFails ==
    /\ pc = "polled"
    /\ BuildsResultSet(query_execution[1].state)
    /\ Return("OperationalError", "get_query_results failed")
    /\ UNCHANGED <<open_result_sets, execs, now, op, kill_on_interrupt, on_start_query_execution,
                   query_id, result_set, resumed, calls>>

\* execute: any other state raises OperationalError(state_change_reason)
RaiseOperationalError ==
    /\ pc = "polled"
    /\ ~BuildsResultSet(query_execution[1].state)
    /\ Return("OperationalError", query_execution[1].state_change_reason)
    /\ UNCHANGED <<open_result_sets, execs, now, op, kill_on_interrupt, on_start_query_execution,
                   query_id, result_set, resumed, calls>>

\* ------------------------------------------------- the service, continued
\* the service starts running a queued execution
ServiceRun(id) ==
    /\ execs[id].state = STATE_QUEUED
    /\ execs' = [execs EXCEPT ![id].state = STATE_RUNNING]
    /\ UNCHANGED <<open_result_sets, now, pc, op, kill_on_interrupt, on_start_query_execution, query_id,
                   result_set, query_execution, resumed, outcome, calls>>

\* the service ends an execution: a running one in any terminal state, a
\* queued one as FAILED or CANCELLED.  The completion time is kept for the
\* executions whose completion time a client reads: the SUCCEEDED DML ones,
\* the candidates of the cache lookup
ServiceFinish(id, state) ==
    /\ \/ execs[id].state = STATE_RUNNING
       \/ execs[id].state = STATE_QUEUED /\ state # STATE_SUCCEEDED
    /\ execs' = [execs EXCEPT ![id].state = state,
                              ![id].state_change_reason = StateChangeReason(state),
                              ![id].completion_date_time =
                                  IF state = STATE_SUCCEEDED
                                     /\ execs[id].statement_type = STATEMENT_TYPE_DML
                                  THEN now ELSE -1]
    /\ UNCHANGED <<open_result_sets, now, pc, op, kill_on_interrupt, on_start_query_execution, query_id,
                   result_set, query_execution, resumed, outcome, calls>>

Tick ==
    /\ now < MaxTime
    /\ now' = now + 1
    /\ UNCHANGED <<open_result_sets, execs, pc, op, kill_on_interrupt, on_start_query_execution, query_id,
                   result_set, query_execution, resumed, outcome, calls>>

\* one step of the cursor, of the service or of the clock
Step ==
    \/ Execute
    \/ \E query \in Queries, cache_size \in 0..MaxCacheSize,
          cache_expiration_time \in 0..MaxCacheExpiration, on_start \in BOOLEAN :
          PrepareQuery(query, cache_size, cache_expiration_time, on_start)
    \/ FindPreviousQueryId
    \/ FindPreviousQueryIdFails
    \/ StartQueryExecution
    \/ StartQueryExecutionFails
    \/ OnStartCursor
    \/ OnStartExecute
    \/ GetQueryExecution
    \/ GetQueryExecutionFails
    \/ Sleep
    \/ Interrupt
    \/ StopQueryExecution
    \/ StopQueryExecutionFails
    \/ BuildResultSet
    \/ BuildResultSetFails
    \/ RaiseOperationalError
    \/ \E id \in 1..Len(execs) : ServiceRun(id)
    \/ \E id \in 1..Len(execs), state \in TerminalStates : ServiceFinish(id, state)
    \/ Tick

\* execute called on its own: the logging configuration, the result the
\* service holds, arraysize and the caller are not touched
Next ==
    Step /\ UNCHANGED <<warning_enabled, table, arraysize, many, fetched, futures,
                        args, result>>

Spec == Init /\ [][Next]_vars

\* the same cursor, constructed with its defaults, with warnings observed
SpecLogged == InitLogged /\ [][Next]_vars

\* ------------------------------------------------------------- properties
\* messages of the errors a failing remote call raises
RemoteFailures == {"start_query_execution failed", "get_query_execution failed",
                   "stop_query_execution failed", "get_query_results failed"}

\* ------------------------------------------- fetch, cancel, close, executemany
\* The caller uses the cursor between two executes.  A fetch that needs a
\* page calls the service; ok page requests succeed before one raises.
\* AllSucceed is more page requests than any result needs.
AllSucceed == MaxRows + 2

\* what the call gave its caller: how it ended, the rows it returned, the
\* StopQueryExecution request it sent; size is the argument of fetchmany
Gave(call, kind, rows, stop) ==
    [call |-> call, size |-> 0, kind |-> kind, rows |-> rows, stop |-> stop,
     closed |-> FALSE]

\* the same for a call made on the cursor's result set: closed says whether
\* the result set was closed when the call was made
GaveOn(rs, call, kind, rows, stop) ==
    [Gave(call, kind, rows, stop) EXCEPT !.closed = is_closed(rs)]

\* the caller is between two calls on the cursor
Idle == pc = "idle" /\ ~many.active

\* the cursor after a fetch call whose result-set method ended as got
AfterFetchCall(call, got, rows) ==
    /\ result_set' = <<got.rs>>
    /\ fetched' = IF got.raised
                  THEN GaveOn(result_set[1], call, "OperationalError", <<>>, <<>>)
                  ELSE GaveOn(result_set[1], call, "returned", rows, <<>>)

\* a fetch call on a cursor without a result set
NoResultSet(call) ==
    /\ result_set' = result_set
    /\ fetched' = Gave(call, "ProgrammingError", <<>>, <<>>)

\* a fetchone that answers None instead of raising when there is no result set
FetchoneLenient(ok) ==
    /\ Idle
    /\ IF result_set = <<>>
       THEN result_set' = result_set /\ fetched' = Gave("fetchone", "returned", <<>>, <<>>)
       ELSE LET got == fetchone(result_set[1], ok)
            IN AfterFetchCall("fetchone", got, got.row)
    /\ UNCHANGED <<execs, now, pc, op, kill_on_interrupt, on_start_query_execution,
                   query_id, query_execution, resumed, outcome, calls,
                   warning_enabled, open_result_sets, table, arraysize, many>>

\* WithFetch.fetchone
Fetchone(ok) ==
    /\ Idle
    /\ IF result_set = <<>>
       THEN NoResultSet("fetchone")
       ELSE LET got == fetchone(result_set[1], ok)
            IN AfterFetchCall("fetchone", got, got.row)
    /\ UNCHANGED <<execs, now, pc, op, kill_on_interrupt, on_start_query_execution,
                   query_id, query_execution, resumed, outcome, calls,
                   warning_enabled, open_result_sets, table, arraysize, many>>

\* WithFetch.fetchmany(size)
Fetchmany(size, ok) ==
    /\ Idle
    /\ IF result_set = <<>>
       THEN result_set' = result_set
            /\ fetched' = [Gave("fetchmany", "ProgrammingError", <<>>, <<>>) EXCEPT !.size = size]
       ELSE LET got == fetchmany(result_set[1], size, ok)
            IN /\ result_set' = <<got.rs>>
               /\ fetched' = [GaveOn(result_set[1], "fetchmany",
                                     IF got.raised THEN "OperationalError" ELSE "returned",
                                     IF got.raised THEN <<>> ELSE got.rows, <<>>)
                              EXCEPT !.size = size]
    /\ UNCHANGED <<execs, now, pc, op, kill_on_interrupt, on_start_query_execution,
                   query_id, query_execution, resumed, outcome, calls,
                   warning_enabled, open_result_sets, table, arraysize, many>>

\* WithFetch.fetchall
Fetchall(ok) ==
    /\ Idle
    /\ IF result_set = <<>>
       THEN NoResultSet("fetchall")
       ELSE LET got == fetchall(result_set[1], ok)
            IN AfterFetchCall("fetchall", got, got.rows)
    /\ UNCHANGED <<execs, now, pc, op, kill_on_interrupt, on_start_query_execution,
                   query_id, query_execution, resumed, outcome, calls,
                   warning_enabled, open_result_sets, table, arraysize, many>>

\* a cancel that calls the service whether or not there is an id
CancelAlways(succeeds) ==
    /\ Idle
    /\ fetched' = Gave("cancel", IF succeeds THEN "returned" ELSE "OperationalError",
                       <<>>, <<query_id>>)
    /\ UNCHANGED <<execs, now, pc, op, kill_on_interrupt, on_start_query_execution,
                   query_id, result_set, query_execution, resumed, outcome, calls,
                   warning_enabled, open_result_sets, table, arraysize, many>>

\* WithFetch.cancel: ProgrammingError without a query id, otherwise
\* _cancel(self.query_id), whose stop_query_execution returns or raises
Cancel(succeeds) ==
    /\ Idle
    /\ fetched' = IF query_id = 0
                  THEN Gave("cancel", "ProgrammingError", <<>>, <<>>)
                  ELSE Gave("cancel", IF succeeds THEN "returned" ELSE "OperationalError",
                            <<>>, <<query_id>>)
    /\ UNCHANGED <<execs, now, pc, op, kill_on_interrupt, on_start_query_execution,
                   query_id, result_set, query_execution, resumed, outcome, calls,
                   warning_enabled, open_result_sets, table, arraysize, many>>

\* WithFetch.close: close the result set unless there is none or it is
\* closed already
Close ==
    /\ Idle
    /\ IF result_set # <<>> /\ ~is_closed(result_set[1])
       THEN /\ result_set' = <<close(result_set[1])>>
            /\ open_result_sets' = open_result_sets - 1
       ELSE UNCHANGED <<result_set, open_result_sets>>
    /\ fetched' = IF result_set = <<>> THEN Gave("close", "returned", <<>>, <<>>)
                  ELSE GaveOn(result_set[1], "close", "returned", <<>>, <<>>)
    /\ UNCHANGED <<execs, now, pc, op, kill_on_interrupt, on_start_query_execution,
                   query_id, query_execution, resumed, outcome, calls,
                   warning_enabled, table, arraysize, many>>

\* AthenaResultSet.close called on the cursor's result set itself,
\* whether it is open or closed
ResultSetClose ==
    /\ Idle
    /\ result_set # <<>>
    /\ result_set' = <<close(result_set[1])>>
    /\ open_result_sets' = IF is_closed(result_set[1]) THEN open_result_sets
                           ELSE open_result_sets - 1
    /\ fetched' = GaveOn(result_set[1], "result_set.close", "returned", <<>>, <<>>)
    /\ UNCHANGED <<execs, now, pc, op, kill_on_interrupt, on_start_query_execution,
                   query_id, query_execution, resumed, outcome, calls,
                   warning_enabled, table, arraysize, many>>

\* AthenaResultSet._fetch called on a closed result set: close left no
\* token, and without one _fetch raises before it asks for a page
FetchClosed ==
    /\ Idle
    /\ result_set # <<>> /\ is_closed(result_set[1])
    /\ result_set[1].next_token = 0
    /\ fetched' = GaveOn(result_set[1], "_fetch", "ProgrammingError", <<>>, <<>>)
    /\ UNCHANGED <<execs, now, pc, op, kill_on_interrupt, on_start_query_execution,
                   query_id, result_set, query_execution, resumed, outcome, calls,
                   warning_enabled, open_result_sets, table, arraysize, many>>

\* the caller calls execute; what an earlier call returned is gone
CallExecute ==
    /\ Idle
    /\ Execute
    /\ fetched' = NoFetch
    /\ UNCHANGED <<warning_enabled, table, arraysize, many>>

\* WithFetch.executemany is called with n parameter sets
Executemany(n) ==
    /\ Idle
    /\ many' = [active |-> TRUE, left |-> n, started |-> 0]
    /\ fetched' = NoFetch
    /\ UNCHANGED <<execs, now, pc, op, kill_on_interrupt, on_start_query_execution,
                   query_id, result_set, query_execution, resumed, outcome, calls,
                   warning_enabled, open_result_sets, table, arraysize>>

\* an executemany that goes on to the next parameter set after an execute
\* raised
ExecuteReturnedOrRaised == TRUE

\* executemany: the previous execute, if any, returned
ExecuteReturned == many.started = 0 \/ outcome.kind = "returned"

\* executemany: the loop calls execute for the next parameter set
ExecutemanyExecute ==
    /\ many.active /\ many.left > 0
    /\ ExecuteReturned
    /\ Execute
    /\ many' = [many EXCEPT !.left = @ - 1, !.started = @ + 1]
    /\ UNCHANGED <<warning_enabled, table, arraysize, fetched>>

\* executemany: an execute raised and the exception leaves executemany; size
\* records which execute of the call it was
ExecutemanyRaises ==
    /\ pc = "idle" /\ many.active
    /\ ~ExecuteReturned
    /\ many' = NoExecutemany
    /\ fetched' = [Gave("executemany", outcome.kind, <<>>, <<>>) EXCEPT !.size = many.started]
    /\ UNCHANGED <<execs, now, pc, op, kill_on_interrupt, on_start_query_execution,
                   query_id, result_set, query_execution, resumed, outcome, calls,
                   warning_enabled, open_result_sets, table, arraysize>>

\* executemany: the loop is over, _reset_state drops the last result set
ExecutemanyReturns ==
    /\ pc = "idle" /\ many.active /\ many.left = 0
    /\ ExecuteReturned
    /\ ResetState
    /\ many' = NoExecutemany
    /\ fetched' = Gave("executemany", "returned", <<>>, <<>>)
    /\ UNCHANGED <<execs, now, pc, op, kill_on_interrupt, on_start_query_execution,
                   query_execution, resumed, outcome, calls,
                   warning_enabled, table, arraysize>>

\* a cursor constructed with an arraysize and without callbacks; the
\* service holds some result for the executions
InitFetch ==
    /\ execs = <<>>
    /\ now = 0
    /\ pc = "idle"
    /\ op = NoOperation
    /\ kill_on_interrupt = TRUE
    /\ on_start_query_execution = FALSE
    /\ query_id = 0
    /\ result_set = <<>>
    /\ query_execution = <<>>
    /\ resumed = FALSE
    /\ outcome = NoOutcome
    /\ calls = NoCalls
    /\ warning_enabled = FALSE
    /\ open_result_sets = 0
    /\ table \in [rows : 0..MaxRows, header : BOOLEAN, labels : {{}}]
    /\ arraysize \in 1..MaxArraysize
    /\ many = NoExecutemany
    /\ fetched = NoFetch
    /\ futures = <<>>
    /\ args = NoArgs
    /\ result = <<>>

\* the steps inside an execute of a SELECT, called on its own or by
\* executemany, that is not interrupted and polls an execution that has
\* ended
ExecuteStep ==
    \/ \E cache_size \in 0..MaxCacheSize : PrepareQuery("SELECT 1", cache_size, 0, FALSE)
    \/ FindPreviousQueryId
    \/ StartQueryExecution
    \/ StartQueryExecutionFails
    \/ OnStartCursor
    \/ OnStartExecute
    \/ GetQueryExecution
    \/ GetQueryExecutionFails
    \/ BuildResultSet
    \/ BuildResultSetFails
    \/ RaiseOperationalError
    \/ \E id \in 1..Len(execs) : ServiceRun(id)
    \/ \E id \in 1..Len(execs), state \in TerminalStates : ServiceFinish(id, state)

StepFetch ==
    \/ CallExecute
    \/ ExecuteStep /\ UNCHANGED <<warning_enabled, table, arraysize, many, fetched>>
    \/ \E n \in 0..MaxParams : Executemany(n)
    \/ ExecutemanyExecute
    \/ ExecutemanyRaises
    \/ ExecutemanyReturns
    \/ \E ok \in {0, AllSucceed} : Fetchone(ok)
    \/ \E size \in 0..(MaxRows + 1), ok \in {0, 1, AllSucceed} : Fetchmany(size, ok)
    \/ \E ok \in {0, 1, AllSucceed} : Fetchall(ok)
    \/ \E succeeds \in BOOLEAN : Cancel(succeeds)
    \/ Close
    \/ ResultSetClose
    \/ FetchClosed

\* no thread-offloaded cursor is in use
NextFetch == StepFetch /\ UNCHANGED <<futures, args, result>>

\* the cursor used for executes, fetches, cancel, close and executemany
SpecFetch == InitFetch /\ [][NextFetch]_vars

\* ------------------------------------------ the whole surface of the cursor
\* a setter that stores the value before it checks it
Cursor_arraysizeStoresFirst(current, value) ==
    IF value <= 0 \/ value > DEFAULT_FETCH_SIZE
    THEN [raised |-> "ProgrammingError", arraysize |-> value]
    ELSE [raised |-> "", arraysize |-> value]

\* a setter that reports a bad value as a ValueError
Cursor_arraysizeValueError(current, value) ==
    IF value <= 0 \/ value > DEFAULT_FETCH_SIZE
    THEN [raised |-> "ValueError", arraysize |-> current]
    ELSE [raised |-> "", arraysize |-> value]

\* the setter of Cursor.arraysize, the same code as CursorIterator's:
\* what the assignment raises, and self._arraysize after it
Cursor_arraysize(current, value) ==
    IF value <= 0 \/ value > DEFAULT_FETCH_SIZE
    THEN [raised |-> "ProgrammingError", arraysize |-> current]
    ELSE [raised |-> "", arraysize |-> value]

\* the setter of WithFetch.arraysize, which S3FSCursor and PolarsCursor keep
WithFetch_arraysize(current, value) ==
    IF value <= 0
    THEN [raised |-> "ProgrammingError", arraysize |-> current]
    ELSE [raised |-> "", arraysize |-> value]

\* the caller assigns value to the arraysize of a Cursor
SetArraysize(value) ==
    /\ Idle
    /\ LET set == Cursor_arraysize(arraysize, value)
       IN /\ arraysize' = set.arraysize
          /\ fetched' = [Gave("arraysize", IF set.raised = "" THEN "returned" ELSE set.raised,
                              <<>>, <<>>) EXCEPT !.size = value]
    /\ UNCHANGED <<execs, now, pc, op, kill_on_interrupt, on_start_query_execution,
                   query_id, result_set, query_execution, resumed, outcome, calls,
                   warning_enabled, open_result_sets, table, many>>

\* a cursor constructed with or without kill_on_interrupt
InitSurface ==
    /\ execs = <<>>
    /\ now = 0
    /\ pc = "idle"
    /\ op = NoOperation
    /\ kill_on_interrupt \in BOOLEAN
    /\ on_start_query_execution = FALSE
    /\ query_id = 0
    /\ result_set = <<>>
    /\ query_execution = <<>>
    /\ resumed = FALSE
    /\ outcome = NoOutcome
    /\ calls = NoCalls
    /\ warning_enabled = FALSE
    /\ open_result_sets = 0
    /\ table = DefaultTable
    /\ arraysize = MaxArraysize
    /\ many = NoExecutemany
    /\ fetched = NoFetch
    /\ futures = <<>>
    /\ args = NoArgs
    /\ result = <<>>

\* every call the caller can make on the cursor, the steps inside execute,
\* and the interruptions the caller's environment delivers to a poll
StepSurface ==
    \/ CallExecute
    \/ ExecuteStep /\ UNCHANGED <<warning_enabled, table, arraysize, many, fetched>>
    \/ (Interrupt \/ StopQueryExecution \/ StopQueryExecutionFails)
          /\ UNCHANGED <<warning_enabled, table, arraysize, many, fetched>>
    \/ \E n \in 0..MaxParams : Executemany(n)
    \/ ExecutemanyExecute
    \/ ExecutemanyRaises
    \/ ExecutemanyReturns
    \/ \E ok \in {0, AllSucceed} : Fetchone(ok)
    \/ \E ok \in {0, AllSucceed} : Fetchmany(0, ok)
    \/ \E ok \in {0, AllSucceed} : Fetchall(ok)
    \/ \E succeeds \in BOOLEAN : Cancel(succeeds)
    \/ Close
    \/ \E value \in {0, 1, DEFAULT_FETCH_SIZE + 1} : SetArraysize(value)

NextSurface == StepSurface /\ UNCHANGED <<futures, args, result>>

SpecSurface == InitSurface /\ [][NextSurface]_vars

\* ------------------------------------------------- thread-offloaded mode
\* the state of the blocking cursor, which the thread-offloaded one does not
\* share
cursor_vars == <<pc, op, kill_on_interrupt, on_start_query_execution, query_id, result_set,
                 query_execution, resumed, outcome, calls, warning_enabled,
                 open_result_sets, arraysize, many, fetched>>

\* executor.submit: the task of _collect_result_set(query_id), not started
Future(id) ==
    [query_id |-> id, pc |-> "pending", query_execution |-> <<>>, result |-> <<>>,
     exception |-> ""]

\* the tasks a worker thread is running
Running == {i \in 1..Len(futures) : futures[i].pc \in {"get", "polled"}}

\* an execute that hands the worker the id of the execution before
AsyncExecuteStaleId(cache_size) ==
    /\ Len(futures) < MaxFutures
    /\ Len(execs) < MaxFutures
    /\ execs' = Append(execs, NewExecution("SELECT 1"))
    /\ futures' = Append(futures, Future(IF Len(execs) = 0 THEN 1 ELSE Len(execs)))
    /\ UNCHANGED <<now, table>>
    /\ UNCHANGED cursor_vars

\* AsyncPandasCursor.execute: _execute looks the query up and submits it
\* when no id is found; the task is handed to the pool and (query_id,
\* future) returned without waiting for the execution
AsyncExecute(cache_size) ==
    /\ Len(futures) < MaxFutures
    /\ LET found == _find_previous_query_id("SELECT 1", cache_size, 0)
       IN IF found.query_id # 0
          THEN /\ execs' = execs
               /\ futures' = Append(futures, Future(found.query_id))
          ELSE /\ Len(execs) < MaxFutures
               /\ execs' = Append(execs, NewExecution("SELECT 1"))
               /\ futures' = Append(futures, Future(Len(execs) + 1))
    /\ UNCHANGED <<now, table>>
    /\ UNCHANGED cursor_vars

\* the pool: a free worker thread takes the task submitted first
WorkerStart(i) ==
    /\ futures[i].pc = "pending"
    /\ \A j \in 1..(i - 1) : futures[j].pc # "pending"
    /\ Cardinality(Running) < max_workers
    /\ futures' = [futures EXCEPT ![i].pc = "get"]
    /\ UNCHANGED <<execs, now, table>>
    /\ UNCHANGED cursor_vars

\* _collect_result_set: _poll fetches the execution, returns the snapshot
\* when its state is terminal and sleeps before the next fetch otherwise
WorkerGetQueryExecution(i) ==
    /\ futures[i].pc = "get"
    /\ futures' = IF PollReturns(execs[futures[i].query_id].state)
                  THEN [futures EXCEPT ![i].query_execution = <<Snapshot(futures[i].query_id)>>,
                                       ![i].pc = "polled"]
                  ELSE futures
    /\ UNCHANGED <<execs, now, table>>
    /\ UNCHANGED cursor_vars

\* _collect_result_set: get_query_execution raises after its retries and
\* the future ends with the exception
WorkerGetQueryExecutionFails(i) ==
    /\ futures[i].pc = "get"
    /\ futures' = [futures EXCEPT ![i].pc = "done", ![i].query_execution = <<>>,
                                  ![i].exception = "OperationalError"]
    /\ UNCHANGED <<execs, now, table>>
    /\ UNCHANGED cursor_vars

\* _collect_result_set: the result set is constructed from the snapshot
\* _poll returned, whatever its state; the constructor fetches the first
\* page only for a SUCCEEDED execution and only when asked to pre-fetch
CollectResultSet(i, pre_fetch) ==
    /\ futures[i].pc = "polled"
    /\ LET execution == futures[i].query_execution[1]
           rs == AthenaResultSet(execution, arraysize)
       IN futures' = [futures EXCEPT
                        ![i].pc = "done",
                        ![i].query_execution = <<>>,
                        ![i].result = IF execution.state = STATE_SUCCEEDED /\ pre_fetch
                                      THEN <<_pre_fetch(rs)>> ELSE <<rs>>]
    /\ UNCHANGED <<execs, now, table>>
    /\ UNCHANGED cursor_vars

\* AthenaResultSet.__get_query_results in the constructor raises and the
\* future ends with the exception
CollectResultSetFails(i) ==
    /\ futures[i].pc = "polled"
    /\ futures[i].query_execution[1].state = STATE_SUCCEEDED
    /\ futures' = [futures EXCEPT ![i].pc = "done", ![i].query_execution = <<>>,
                                  ![i].exception = "OperationalError"]
    /\ UNCHANGED <<execs, now, table>>
    /\ UNCHANGED cursor_vars

\* the steps inside a blocking execute without cache lookup whose remote
\* calls succeed, and the steps of the service
BlockingStep ==
    \/ PrepareQuery("SELECT 1", 0, 0, FALSE)
    \/ FindPreviousQueryId
    \/ StartQueryExecution
    \/ OnStartCursor
    \/ OnStartExecute
    \/ GetQueryExecution
    \/ BuildResultSet
    \/ RaiseOperationalError
    \/ \E id \in 1..Len(execs) : ServiceRun(id)
    \/ \E id \in 1..Len(execs), state \in TerminalStates : ServiceFinish(id, state)

\* a blocking cursor and a thread-offloaded cursor, both with default
\* arguments, on one connection
InitAsync ==
    /\ execs = <<>>
    /\ now = 0
    /\ pc = "idle"
    /\ op = NoOperation
    /\ kill_on_interrupt = TRUE
    /\ on_start_query_execution = FALSE
    /\ query_id = 0
    /\ result_set = <<>>
    /\ query_execution = <<>>
    /\ resumed = FALSE
    /\ outcome = NoOutcome
    /\ calls = NoCalls
    /\ warning_enabled = FALSE
    /\ open_result_sets = 0
    /\ table = DefaultTable
    /\ arraysize = DEFAULT_FETCH_SIZE
    /\ many = NoExecutemany
    /\ fetched = NoFetch
    /\ futures = <<>>
    /\ args = NoArgs
    /\ result = <<>>

\* the blocking cursor executes; the thread-offloaded cursor executes and
\* its workers poll and collect; the service runs and ends executions
StepAsync ==
    \/ CallExecute /\ UNCHANGED futures
    \/ BlockingStep /\ UNCHANGED <<warning_enabled, table, arraysize, many, fetched, futures>>
    \/ \E cache_size \in 0..MaxCacheSize : AsyncExecute(cache_size)
    \/ \E i \in 1..Len(futures) : WorkerStart(i)
    \/ \E i \in 1..Len(futures) : WorkerGetQueryExecution(i)
    \/ \E i \in 1..Len(futures) : WorkerGetQueryExecutionFails(i)
    \/ \E i \in 1..Len(futures), pre_fetch \in BOOLEAN : CollectResultSet(i, pre_fetch)
    \/ \E i \in 1..Len(futures) : CollectResultSetFails(i)

\* no function is called on its own
NextAsync == StepAsync /\ UNCHANGED <<args, result>>

SpecAsync == InitAsync /\ [][NextAsync]_vars

\* C1: poll returns a QueryExecution only when the state it has just fetched
\* is SUCCEEDED, FAILED or CANCELLED; when the fetched state is QUEUED or
\* RUNNING the loop goes to sleep, and when the sleep is over it fetches the
\* status again instead of returning.
C1_PollReturnsOnlyTerminal ==
    [][ /\ pc' = "polled" /\ pc # "polled" =>
              /\ pc = "get"
              /\ Len(calls'.get) = Len(calls.get) + 1
              /\ calls'.get[Len(calls'.get)].state \in TerminalStates
              /\ query_execution' = <<Snapshot(query_id)>>
              /\ query_execution'[1].state = calls'.get[Len(calls'.get)].state
        /\ pc = "get" /\ Len(calls'.get) = Len(calls.get) + 1
              /\ calls'.get[Len(calls'.get)].state \in {STATE_QUEUED, STATE_RUNNING} =>
              pc' = "sleep" /\ outcome' = outcome
        /\ pc = "sleep" /\ pc' # "sleep" /\ calls'.interrupts = calls.interrupts =>
              pc' = "get" /\ calls'.sleep = calls.sleep + 1 ]_vars

\* C1 witness: a poll that slept on a non-terminal state, fetched again and
\* returned the terminal state
C1_Witness ==
    /\ pc = "polled"
    /\ Len(calls.get) >= 2
    /\ calls.get[1].state \in {STATE_QUEUED, STATE_RUNNING}
    /\ calls.sleep >= 1

\* C2: a poll interrupted inside the try block while kill_on_interrupt is set
\* enters the handler; the handler issues StopExecution for the polled id
\* and, when that call returns, polls the same id again; the resumed poll
\* fetches that id only and returns only a terminal state.
C2_InterruptCancelsAndResumes ==
    [][ /\ calls'.interrupts > calls.interrupts /\ ~resumed /\ kill_on_interrupt
              /\ pc \in {"get", "sleep"} =>
              pc' = "cancel" /\ outcome' = outcome /\ query_id' = query_id
        /\ pc = "cancel" /\ pc' # "cancel" /\ calls'.interrupts = calls.interrupts =>
              calls'.stop = Append(calls.stop, query_id)
        /\ pc = "cancel" /\ pc' \notin {"cancel", "idle"} =>
              pc' = "get" /\ query_id' = query_id /\ calls'.stop = <<query_id>>
        /\ resumed /\ pc = "get" /\ Len(calls'.get) > Len(calls.get) =>
              calls'.get[Len(calls'.get)].query_id = calls.stop[1]
        /\ resumed /\ pc # "polled" /\ pc' = "polled" =>
              /\ calls'.get[Len(calls'.get)].state \in TerminalStates
              /\ calls'.get[Len(calls'.get)].query_id = calls.stop[1] ]_vars

\* C2 witness: interrupted, cancelled, polled again until the terminal state
C2_Witness ==
    /\ pc = "polled"
    /\ resumed
    /\ calls.stop = <<query_id>>
    /\ calls.get[Len(calls.get)].query_id = query_id

\* C3, as stated: after an interruption handled with kill_on_interrupt set,
\* what execute gives its caller (a failing remote call aside) is the
\* OperationalError of a FAILED or CANCELLED execution, never the raw
\* interruption.
C3_Original ==
    (pc = "idle" /\ resumed /\ outcome.message \notin RemoteFailures) =>
        /\ outcome.kind = "OperationalError"
        /\ execs[query_id].state \in {STATE_FAILED, STATE_CANCELLED}

\* C3, amended: after an interruption handled with kill_on_interrupt set,
\* execute ends by the terminal state the resumed poll fetched:
\* OperationalError(state_change_reason) for FAILED or CANCELLED, a normal
\* return with a result set when the execution still SUCCEEDED; the
\* interruption reaches the caller only when a second one arrives during
\* the cancel call or the resumed poll.
C3_InterruptedExecuteEndsByFinalState ==
    (pc = "idle" /\ resumed) =>
        /\ outcome.kind \in {"OperationalError", "returned", "Interrupted"}
        /\ outcome.kind = "Interrupted" => calls.interrupts >= 2
        /\ outcome.kind = "returned" =>
              /\ execs[query_id].state = STATE_SUCCEEDED
              /\ result_set # <<>>
              /\ result_set[1].query_id = query_id
              /\ result_set[1].state = STATE_SUCCEEDED
        /\ outcome.kind = "OperationalError" /\ outcome.message \notin RemoteFailures =>
              /\ execs[query_id].state \in {STATE_FAILED, STATE_CANCELLED}
              /\ outcome.message = execs[query_id].state_change_reason
              /\ result_set = <<>>

\* C3 witness: the poll was interrupted and cancelled, the execution still
\* succeeded and execute returned normally
C3_Witness ==
    /\ pc = "idle"
    /\ resumed
    /\ calls.stop = <<query_id>>
    /\ outcome.kind = "returned"

\* C4: a poll interrupted while kill_on_interrupt is unset raises the
\* interruption to the caller in that very step, and the execute issues no
\* StopExecution call.
C4_InterruptPropagatesWithoutCancel ==
    [][ /\ ~kill_on_interrupt /\ calls'.interrupts > calls.interrupts =>
              /\ pc' = "idle"
              /\ outcome'.kind = "Interrupted"
              /\ calls'.stop = <<>>
        /\ ~kill_on_interrupt => calls'.stop = <<>> /\ pc' # "cancel" ]_vars

\* C4 witness: an interrupted poll of a cursor without kill_on_interrupt
C4_Witness ==
    /\ ~kill_on_interrupt
    /\ pc = "idle"
    /\ outcome.kind = "Interrupted"
    /\ Len(calls.get) >= 1
    /\ calls.stop = <<>>

\* C5: when poll returns FAILED or CANCELLED, execute raises
\* OperationalError whose message is the execution's state_change_reason
\* and the cursor gets no result set.
C5_FailedExecutionRaisesOperationalError ==
    [][ (pc = "polled" /\ pc' # "polled"
          /\ execs[query_id].state \in {STATE_FAILED, STATE_CANCELLED}) =>
              /\ pc' = "idle"
              /\ outcome'.kind = "OperationalError"
              /\ outcome'.message = execs[query_id].state_change_reason
              /\ result_set' = <<>> ]_vars

\* C5 witness: execute raised the reason of a cancelled execution
C5_Witness ==
    /\ pc = "idle"
    /\ query_id # 0
    /\ execs[query_id].state = STATE_CANCELLED
    /\ outcome = [kind |-> "OperationalError", message |-> "Query cancelled by user"]
    /\ result_set = <<>>

\* C6: a StartExecution call that fails makes execute raise DatabaseError;
\* one that succeeds returns the id of the new execution, which becomes the
\* cursor's current query id.
C6_SubmissionOutcome ==
    [][ (calls'.start = calls.start + 1) =>
          /\ pc = "start"
          /\ IF Len(execs') = Len(execs) + 1
             THEN /\ query_id' = Len(execs')
                  /\ execs'[query_id'].query = op.query
                  /\ execs'[query_id'].state = STATE_QUEUED
                  /\ outcome' = NoOutcome
                  /\ pc' = "on_start"
             ELSE /\ execs' = execs
                  /\ outcome'.kind = "DatabaseError"
                  /\ pc' = "idle"
                  /\ query_id' = 0 ]_vars

\* C6 witness: a submitted query whose new id is the cursor's query id
C6_Witness ==
    /\ pc = "on_start"
    /\ calls.start = 1
    /\ query_id = Len(execs)
    /\ query_id # 0

\* C7: when execute enters the poll, each callback that is set (the
\* cursor's own first, then the one passed to execute) has been invoked
\* exactly once, with the cursor's current query id and before any status
\* fetch; no callback is invoked before the id is assigned, and none once
\* polling has begun.
C7_CallbacksOncePerExecute ==
    [][ /\ \A i \in 1..Len(calls'.cb) :
              calls'.cb[i].query_id = query_id' /\ query_id' # 0 /\ calls'.cb[i].polls = 0
        /\ pc = "on_start_execute" /\ pc' # "on_start_execute" =>
              /\ pc' = "get"
              /\ calls'.get = <<>>
              /\ calls'.cb =
                    (IF on_start_query_execution
                     THEN <<[who |-> "cursor", query_id |-> query_id, polls |-> 0]>>
                     ELSE <<>>)
                    \o (IF op.on_start_query_execution
                        THEN <<[who |-> "execute", query_id |-> query_id, polls |-> 0]>>
                        ELSE <<>>)
        /\ pc' \in {"execute", "find", "start"} => calls'.cb = <<>>
        /\ pc \in {"get", "sleep", "cancel", "polled"} => calls'.cb = calls.cb
        /\ pc = "get" /\ calls.get = <<>> => pc' \in {"get", "sleep", "polled", "cancel", "idle"}
    ]_vars

\* C7 witness: both callbacks were invoked and the poll has since fetched
C7_Witness ==
    /\ Len(calls.cb) = 2
    /\ Len(calls.get) >= 2
    /\ calls.start = 1

\* C8, as stated: the poll loop is left only when a terminal state is
\* fetched or the caller's environment interrupts it.
C8_Original ==
    [][ /\ pc \in {"get", "sleep"} /\ pc' \notin {"get", "sleep"} =>
              \/ pc' = "polled" /\ calls'.get[Len(calls'.get)].state \in TerminalStates
              \/ calls'.interrupts > calls.interrupts
    ]_vars

\* C8, amended: polling has no timeout: a sleep that ends is followed by a
\* status fetch however many fetches went before, and the poll loop is left
\* only when a terminal state is fetched, when the caller's environment
\* interrupts it, or when a status fetch itself fails (OperationalError).
C8_PollEndsOnlyByTerminalInterruptOrFailure ==
    [][ /\ pc \in {"get", "sleep"} /\ pc' \notin {"get", "sleep"} =>
              \/ pc' = "polled" /\ calls'.get[Len(calls'.get)].state \in TerminalStates
              \/ calls'.interrupts > calls.interrupts
              \/ /\ pc = "get"
                 /\ calls'.get[Len(calls'.get)].state = "error"
                 /\ outcome' = [kind |-> "OperationalError",
                                message |-> "get_query_execution failed"]
        /\ pc = "sleep" /\ pc' # "sleep" /\ calls'.interrupts = calls.interrupts =>
              pc' = "get" ]_vars

\* C8 witness: a poll that fetched, slept and fetched again ended by a
\* failing status fetch
C8_Witness ==
    /\ pc = "idle"
    /\ outcome = [kind |-> "OperationalError", message |-> "get_query_execution failed"]
    /\ calls.sleep >= 1
    /\ calls.interrupts = 0

\* C9: when poll returns, the terminal state was seen by the last fetch and
\* by no earlier one, so an execution first seen terminal at the N-th fetch
\* costs exactly N GetExecution calls; in a poll that was not interrupted
\* one sleep lies between consecutive calls, N - 1 sleeps in all.
C9_ExactlyNFetches ==
    pc = "polled" =>
        LET n == Len(calls.get)
        IN /\ n >= 1
           /\ calls.get[n].state \in TerminalStates
           /\ \A i \in 1..(n - 1) : calls.get[i].state \in {STATE_QUEUED, STATE_RUNNING}
           /\ calls.interrupts = 0 => calls.sleep = n - 1

\* C9 witness: QUEUED, RUNNING, SUCCEEDED seen by three fetches, two sleeps
C9_Witness ==
    /\ pc = "polled"
    /\ calls.get = <<[query_id |-> query_id, state |-> STATE_QUEUED],
                     [query_id |-> query_id, state |-> STATE_RUNNING],
                     [query_id |-> query_id, state |-> STATE_SUCCEEDED]>>
    /\ calls.sleep = 2

\* C10: when the cache lookup returns an id, execute issues no
\* StartExecution call, the service gets no new execution and the id, which
\* belongs to an earlier execution of the same query text, is the cursor's
\* current query id.
C10_CacheHitSkipsSubmission ==
    [][ /\ pc = "find" /\ pc' # "find" /\ calls'.cached # 0 =>
              /\ pc' = "on_start"
              /\ query_id' = calls'.cached
              /\ execs' = execs
              /\ query_id' \in 1..Len(execs)
              /\ execs[query_id'].query = op.query
        /\ calls'.cached # 0 => calls'.start = 0 /\ query_id' = calls'.cached ]_vars

\* C10 witness: an execute that reused an earlier execution and returned
C10_Witness ==
    /\ pc = "idle"
    /\ outcome.kind = "returned"
    /\ calls.cached # 0
    /\ calls.start = 0
    /\ query_id = calls.cached

\* C11: an id the cache lookup returns names an execution that is SUCCEEDED,
\* of DML statement type, with the requested query text and, when
\* cache_expiration_time > 0, completed no earlier than now minus
\* cache_expiration_time.
C11_CachedIdIsFreshSucceededDml ==
    [][ (pc = "find" /\ calls'.cached # 0) =>
            LET e == execs[calls'.cached]
            IN /\ calls'.cached \in 1..Len(execs)
               /\ e.state = STATE_SUCCEEDED
               /\ e.statement_type = STATEMENT_TYPE_DML
               /\ e.query = op.query
               /\ op.cache_expiration_time > 0 =>
                      e.completion_date_time >= now - op.cache_expiration_time
    ]_vars

\* C11 witness: a lookup with an expiration time is about to return an
\* execution that completed exactly cache_expiration_time ago
C11_Witness ==
    /\ pc = "find"
    /\ op.cache_expiration_time > 0
    /\ LET found == _find_previous_query_id(op.query, op.cache_size, op.cache_expiration_time)
       IN /\ found.query_id # 0
          /\ execs[found.query_id].completion_date_time = now - op.cache_expiration_time
          /\ execs[found.query_id].completion_date_time < now

\* C12: a cache scan that raises is swallowed with a warning: the lookup
\* yields no id, execute does not end there, nothing has been submitted yet
\* and the submission comes next; no execute ever ends with the failure of
\* the scan.
C12_ScanFailureIsSwallowed ==
    [][ /\ (pc = "find" /\ calls'.warning) =>
              /\ pc' = "start"
              /\ calls'.cached = 0
              /\ query_id' = 0
              /\ outcome' = NoOutcome
              /\ execs' = execs
        /\ pc = "find" => pc' # "idle"
        /\ outcome'.message # "list_query_executions failed"
    ]_vars

\* C12 witness: the scan of this execute failed with a warning, the query
\* was then submitted and execute returned its result set
C12_Witness ==
    /\ pc = "idle"
    /\ calls.warning
    /\ calls.cached = 0
    /\ calls.start = 1
    /\ outcome.kind = "returned"
    /\ result_set # <<>>

\* C13: a new execute first closes and drops the cursor's open result set:
\* at every moment at most one result set is open, it is the one the cursor
\* refers to, and while an execute runs there is none.
C13_AtMostOneOpenResultSet ==
    /\ open_result_sets \in {0, 1}
    /\ open_result_sets = 1 <=> (result_set # <<>> /\ ~is_closed(result_set[1]))
    /\ pc # "idle" => (result_set = <<>> /\ open_result_sets = 0)

\* C13 witness: the second execute of an executemany has just been entered;
\* the result set of the first one is closed and gone
C13_Witness ==
    /\ pc = "execute"
    /\ many.started = 2
    /\ result_set = <<>>
    /\ open_result_sets = 0

\* the fetch calls of the cursor
FetchCalls == {"fetchone", "fetchmany", "fetchall"}

\* C16: a fetchone, fetchmany or fetchall on a cursor without a result set
\* raises ProgrammingError, and a cursor has none before its first execute
\* and after an executemany that returned.
C16_FetchWithoutResultSetRaises ==
    [][ /\ (fetched'.call \in FetchCalls /\ result_set' = <<>>) =>
              fetched'.kind = "ProgrammingError"
        /\ (many.active /\ ~many'.active /\ fetched'.kind = "returned") =>
              (result_set' = <<>> /\ query_id' = 0)
        /\ (execs' = <<>> /\ calls' = NoCalls) => result_set' = <<>>
    ]_vars

\* C16 witness: an executemany whose last execute returned has ended, and a
\* fetchmany raised ProgrammingError
C16_Witness ==
    /\ Idle
    /\ outcome.kind = "returned"
    /\ result_set = <<>>
    /\ fetched.call = "fetchmany"
    /\ fetched.kind = "ProgrammingError"

\* C17: cancel raises ProgrammingError and sends nothing when the cursor
\* has no query id; otherwise it sends one StopExecution for that id.
C17_CancelNeedsQueryId ==
    fetched.call = "cancel" =>
        IF query_id = 0
        THEN fetched.kind = "ProgrammingError" /\ fetched.stop = <<>>
        ELSE fetched.kind \in {"returned", "OperationalError"} /\ fetched.stop = <<query_id>>

\* C17 witness: cancel raised on a cursor whose executemany has reset the id
C17_Witness ==
    /\ Idle
    /\ execs # <<>>
    /\ query_id = 0
    /\ fetched.call = "cancel"
    /\ fetched.kind = "ProgrammingError"

\* the data rows of the result set not handed out yet
Remaining(rs) == IF is_closed(rs) THEN 0 ELSE table.rows - Len(rs.delivered)

\* a step of fetch call `call` on a cursor with a result set
FetchStep(call) ==
    /\ result_set # <<>>
    /\ fetched'.call = call
    /\ fetched' # fetched \/ result_set' # result_set

\* C18: fetchmany(n), n >= 1, whose page requests succeed returns exactly
\* min(n, rows not yet delivered) rows, the next ones; on an exhausted or
\* empty result it returns the empty sequence and does not raise.
C18_FetchmanyReturnsMinRows ==
    [][ FetchStep("fetchmany") =>
          /\ (fetched'.size >= 1 /\ fetched'.kind = "returned") =>
                /\ Len(fetched'.rows) = Min(fetched'.size, Remaining(result_set[1]))
                /\ result_set'[1].delivered = result_set[1].delivered \o fetched'.rows
          /\ Remaining(result_set[1]) = 0 =>
                (fetched'.kind = "returned" /\ fetched'.rows = <<>>)
    ]_vars

\* C18 witness: a three-row result read with arraysize 2: fetchmany(2) gave
\* two rows and now, across a page boundary, the last one
C18_Witness ==
    /\ Idle
    /\ table.rows = 3 /\ arraysize = 2
    /\ result_set # <<>>
    /\ fetched = [Gave("fetchmany", "returned", <<3>>, <<>>) EXCEPT !.size = 2]
    /\ result_set[1].delivered = <<1, 2, 3>>
    /\ Len(result_set[1].requests) >= 2

\* C19: once fetchone has returned None on a result set, the buffer is
\* empty and no token is left, and a further fetchone returns None again,
\* requests no page and leaves rownumber (and everything else) as it is.
C19_FetchoneEndIsIdempotent ==
    [][ /\ (result_set' # <<>> /\ fetched'.call = "fetchone"
              /\ fetched'.kind = "returned" /\ fetched'.rows = <<>>) =>
                (result_set'[1].rows = <<>> /\ result_set'[1].next_token = 0)
        /\ (result_set # <<>> /\ fetched.call = "fetchone" /\ fetched.kind = "returned"
              /\ fetched.rows = <<>> /\ fetched'.call = "fetchone") =>
                (fetched' = fetched /\ result_set' = result_set)
    ]_vars

\* C19 witness: fetchone has returned None after the rows of a result of
\* several pages
C19_Witness ==
    /\ Idle
    /\ result_set # <<>> /\ ~is_closed(result_set[1])
    /\ fetched = Gave("fetchone", "returned", <<>>, <<>>)
    /\ Len(result_set[1].delivered) = table.rows /\ table.rows >= 2
    /\ Len(result_set[1].requests) >= 2
    /\ result_set[1].rownumber = table.rows

\* C20: rows are delivered in the order the service returned them: pages
\* are requested in pagination order, and the rows handed out, followed by
\* the buffered ones, are the first data rows of the result in order; what
\* a fetch call returns is the end of what has been handed out.
C20_RowsInServiceOrder ==
    result_set # <<>> /\ ~is_closed(result_set[1]) =>
        LET rs == result_set[1]
            seen == rs.delivered \o rs.rows
        IN /\ \A i \in 1..Len(seen) : seen[i] = i
           /\ \A i \in 1..(Len(rs.requests) - 1) : rs.requests[i] < rs.requests[i + 1]
           /\ (fetched.call \in FetchCalls /\ fetched.kind = "returned") =>
                 /\ Len(fetched.rows) <= Len(rs.delivered)
                 /\ fetched.rows = SubSeq(rs.delivered,
                                          Len(rs.delivered) - Len(fetched.rows) + 1,
                                          Len(rs.delivered))

\* C20 witness: fetchall returned the rows of three pages in order
C20_Witness ==
    /\ Idle
    /\ result_set # <<>>
    /\ fetched = Gave("fetchall", "returned", <<1, 2, 3>>, <<>>)
    /\ Len(result_set[1].requests) = 3

\* the futures of the thread-offloaded cursor that are not done, and the
\* executions they track
Pending == {i \in 1..Len(futures) : futures[i].pc # "done"}
Tracked == {futures[i].query_id : i \in Pending}
NonTerminal(ids) == {id \in ids : execs[id].state \notin TerminalStates}

\* C14 as stated: a cursor, the thread-offloaded one included, holds at
\* most one QUEUED or RUNNING execution at any time.
C14_Original ==
    /\ query_id # 0 => Cardinality(NonTerminal({query_id})) <= 1
    /\ Cardinality(NonTerminal(Tracked)) <= 1

\* C14: a blocking execute returns only once its execution is terminal, so
\* the cursor holds no non-terminal execution between executes; the
\* thread-offloaded execute returns at once and the cursor holds one
\* non-terminal execution per future that is not done, each of them tracked
\* by one future only.
C14_OneNonTerminalPerPendingFuture ==
    /\ (pc = "idle" /\ outcome.kind = "returned") =>
          (query_id # 0 /\ NonTerminal({query_id}) = {})
    /\ \A i \in Pending, j \in Pending :
          (i # j /\ futures[i].query_id = futures[j].query_id) =>
             NonTerminal({futures[i].query_id}) = {}

\* C14 witness: two execute calls of the thread-offloaded cursor have
\* returned; a worker polls the first execution, the second task waits, and
\* both executions are still QUEUED or RUNNING
C14_Witness ==
    /\ Len(futures) = 2
    /\ futures[1].pc = "get" /\ futures[2].pc = "pending"
    /\ futures[1].query_id # futures[2].query_id
    /\ NonTerminal(Tracked) = {futures[1].query_id, futures[2].query_id}

\* the result sets the thread-offloaded cursor's futures have returned
Collected == {i \in 1..Len(futures) : futures[i].result # <<>>}

C21_RownumberCountsDeliveredRows ==
    [][ (/\ result_set # <<>> /\ result_set' # <<>>
         /\ ~is_closed(result_set[1]) /\ ~is_closed(result_set'[1])) =>
           LET before == result_set[1]
               after == result_set'[1]
               k == Len(after.delivered) - Len(before.delivered)
           IN /\ k >= 0
              /\ after.rownumber = before.rownumber + k
              /\ (FetchStep("fetchone") /\ fetched'.kind = "returned") =>
                     k = Len(fetched'.rows)
              /\ after.rownumber = Len(after.delivered)
    ]_vars

\* C21 witness: three rows of a three-row result were delivered one by one
\* across pages, then fetchone returned the end marker: rownumber is 3
C21_Witness ==
    /\ Idle
    /\ result_set # <<>> /\ ~is_closed(result_set[1])
    /\ table.rows = 3 /\ arraysize = 1
    /\ result_set[1].delivered = <<1, 2, 3>>
    /\ result_set[1].rownumber = 3
    /\ fetched = Gave("fetchone", "returned", <<>>, <<>>)

\* WithFetch.rownumber: the row number of the result set, None (-1) when
\* the cursor has no result set
rownumber == IF result_set # <<>> THEN result_set[1].rownumber ELSE -1

\* no row of the cursor's open result set has been handed out
NothingFetched ==
    /\ result_set # <<>>
    /\ ~is_closed(result_set[1])
    /\ result_set[1].delivered = <<>>

\* C22 as stated: after a successful execute and before the first fetch,
\* rownumber is absent.
C22_Original == NothingFetched => rownumber = -1

\* C22: rownumber is absent while the cursor has no result set; once an
\* execute has succeeded it is 0 until the first row is fetched.
C22_RownumberZeroBeforeFirstFetch ==
    /\ result_set = <<>> => rownumber = -1
    /\ NothingFetched => rownumber = 0

\* C22 witness: execute has just returned on a result of at least one row and
\* no fetch has been called
C22_Witness ==
    /\ Idle
    /\ outcome.kind = "returned"
    /\ NothingFetched
    /\ fetched = NoFetch
    /\ result_set[1].rows # <<>>
    /\ rownumber = 0

\* ------------------------------------------------------- value conversion
\* A cell is a sequence of tokens: the brackets, braces and commas of its
\* text and, between them, its atoms (1, a, null, NULL, and the quoted
\* strings "" and "null"); it carries no white space and no : sign.
\* A converted value is a record: py is the Python type (or the exception
\* raised), v the text of a scalar, items the members of a list or of a
\* dict, whose keys are the positions.
PyNone == [py |-> "None", v |-> <<>>, items |-> <<>>]
PyStr(s) == [py |-> "str", v |-> s, items |-> <<>>]
PyInt(s) == [py |-> "int", v |-> s, items |-> <<>>]
PyDecimal(s) == [py |-> "Decimal", v |-> s, items |-> <<>>]
PyList(xs) == [py |-> "list", v |-> <<>>, items |-> xs]
PyDict(xs) == [py |-> "dict", v |-> <<>>, items |-> xs]
Raise(exception) == [py |-> exception, v |-> <<>>, items |-> <<>>]
Exceptions == {"ValueError", "InvalidOperation"}

\* a list built by a loop or a comprehension: the first exception an
\* element raised leaves the loop, otherwise the list
ListOf(xs) ==
    IF \E i \in 1..Len(xs) : xs[i].py \in Exceptions
    THEN xs[CHOOSE i \in 1..Len(xs) : /\ xs[i].py \in Exceptions
                                      /\ \A j \in 1..(i - 1) : xs[j].py \notin Exceptions]
    ELSE PyList(xs)

\* a dict with named keys: v holds the keys, items their values
PyMap(keys, xs) == [py |-> "dict", v |-> keys, items |-> xs]

\* a dict built by a loop: the first exception a value raised leaves the
\* loop, otherwise the dict
DictOf(keys, xs) ==
    IF \E i \in 1..Len(xs) : xs[i].py \in Exceptions THEN ListOf(xs) ELSE PyMap(keys, xs)

\* the quoted strings among the atoms, and the text inside their quotes
Quoted == {"\"\"", "\"null\""}
Unquote(token) == IF token = "\"\"" THEN <<>> ELSE <<"null">>

\* str.startswith, str.endswith and the in operator, on one character
startswith(value, c) == Len(value) > 0 /\ value[1] = c
endswith(value, c) == Len(value) > 0 /\ value[Len(value)] = c
contains(value, c) == \E i \in 1..Len(value) : value[i] = c
\* value[1:-1]
inside(value) == SubSeq(value, 2, Len(value) - 1)
\* value.lower() == "null"
is_null(value) == value \in {<<"null">>, <<"NULL">>, <<"Null">>}

\* json.loads: <<the decoded value>>, or <<>> for a JSONDecodeError.
\* JsonValue decodes the value that starts at position i, JsonElements the
\* rest of a list whose earlier elements are acc.
RECURSIVE JsonValue(_, _), JsonElements(_, _, _)
JsonFail == [ok |-> FALSE, next |-> 0, val |-> PyNone]
JsonValue(value, i) ==
    IF i > Len(value) THEN JsonFail
    ELSE IF value[i] = "1" THEN [ok |-> TRUE, next |-> i + 1, val |-> PyInt(<<"1">>)]
    ELSE IF value[i] = "null" THEN [ok |-> TRUE, next |-> i + 1, val |-> PyNone]
    ELSE IF value[i] \in Quoted
         THEN [ok |-> TRUE, next |-> i + 1, val |-> PyStr(Unquote(value[i]))]
    ELSE IF value[i] = "["
         THEN IF i < Len(value) /\ value[i + 1] = "]"
              THEN [ok |-> TRUE, next |-> i + 2, val |-> PyList(<<>>)]
              ELSE JsonElements(value, i + 1, <<>>)
    ELSE IF value[i] = "{" /\ i < Len(value) /\ value[i + 1] = "}"
         THEN [ok |-> TRUE, next |-> i + 2, val |-> PyDict(<<>>)]
    ELSE JsonFail
JsonElements(value, i, acc) ==
    LET e == JsonValue(value, i)
    IN IF ~e.ok \/ e.next > Len(value) THEN JsonFail
       ELSE IF value[e.next] = "," THEN JsonElements(value, e.next + 1, Append(acc, e.val))
       ELSE IF value[e.next] = "]"
            THEN [ok |-> TRUE, next |-> e.next + 1, val |-> PyList(Append(acc, e.val))]
       ELSE JsonFail
json_loads(value) ==
    LET decoded == JsonValue(value, 1)
    IN IF decoded.ok /\ decoded.next = Len(value) + 1 THEN <<decoded.val>> ELSE <<>>

\* str(elem) of a decoded element: the text of a scalar, the repr of a
\* list or of an empty dict
RECURSIVE repr(_), ReprItems(_, _)
repr(x) ==
    IF x.py = "None" THEN <<"None">>
    ELSE IF x.py = "str" THEN <<"'">> \o x.v \o <<"'">>
    ELSE IF x.py = "list" THEN <<"[">> \o ReprItems(x.items, 1) \o <<"]">>
    ELSE IF x.py = "dict" THEN <<"{", "}">>
    ELSE x.v
ReprItems(xs, i) ==
    IF i > Len(xs) THEN <<>>
    ELSE (IF i > 1 THEN <<",">> ELSE <<>>) \o repr(xs[i]) \o ReprItems(xs, i + 1)
str(x) == IF x.py \in {"str", "int"} THEN x.v ELSE repr(x)

\* _to_int, _to_decimal, _to_default
_to_int(varchar_value) ==
    IF varchar_value = <<"1">> THEN PyInt(varchar_value) ELSE Raise("ValueError")
_to_decimal(varchar_value) ==
    IF varchar_value = <<>> THEN PyNone
    ELSE IF varchar_value = <<"1">> THEN PyDecimal(varchar_value)
    ELSE Raise("InvalidOperation")
_to_default(varchar_value) == PyStr(varchar_value)

\* _convert_value: None for null, otherwise the string as it is
_convert_value(value) == IF is_null(value) THEN PyNone ELSE PyStr(value)

\* _split_array_items: the items between the commas outside braces and
\* brackets; the loop, with what is left of inner, the item being read,
\* the depths and the items read
RECURSIVE SplitLoop(_, _, _, _, _)
SplitLoop(rest, current_item, brace_depth, bracket_depth, items) ==
    IF rest = <<>>
    THEN IF current_item # <<>> THEN Append(items, current_item) ELSE items
    ELSE LET char == Head(rest)
         IN IF char = "," /\ brace_depth = 0 /\ bracket_depth = 0
            THEN SplitLoop(Tail(rest), <<>>, brace_depth, bracket_depth,
                           Append(items, current_item))
            ELSE SplitLoop(Tail(rest), Append(current_item, char),
                           brace_depth + (IF char = "{" THEN 1 ELSE IF char = "}" THEN -1 ELSE 0),
                           bracket_depth + (IF char = "[" THEN 1 ELSE IF char = "]" THEN -1 ELSE 0),
                           items)
_split_array_items(inner) == SplitLoop(inner, <<>>, 0, 0, <<>>)

\* inner.split(",")
RECURSIVE SplitCommas(_, _, _)
SplitCommas(rest, current_item, items) ==
    IF rest = <<>> THEN Append(items, current_item)
    ELSE IF Head(rest) = "," THEN SplitCommas(Tail(rest), <<>>, Append(items, current_item))
    ELSE SplitCommas(Tail(rest), Append(current_item, Head(rest)), items)
split(inner) == SplitCommas(inner, <<>>, <<>>)

\* the loops over the items of a native array or dict keep what they append
RECURSIVE SelectSeq2(_, _)
SelectSeq2(xs, keep) ==
    IF xs = <<>> THEN <<>>
    ELSE (IF keep[1] THEN <<Head(xs)>> ELSE <<>>)
         \o SelectSeq2(Tail(xs), Tail(keep))

\* str(i) of a position
str_index(i) == <<<<"0", "1", "2", "3", "4", "5", "6", "7", "8", "9">>[i + 1]>>

\* pair.split("=", 1): the key before the first = sign, the value after it
first_eq(pair) == CHOOSE i \in 1..Len(pair) : pair[i] = "=" /\ \A j \in 1..(i - 1) : pair[j] # "="
key_of(pair) == SubSeq(pair, 1, first_eq(pair) - 1)
value_of(pair) == SubSeq(pair, first_eq(pair) + 1, Len(pair))
\* any(char in text for char in '{}="')
special(text) == \E i \in 1..Len(text) : text[i] \in {"{", "}", "="} \cup Quoted

\* _parse_unnamed_struct: the fields by position
_parse_unnamed_struct(inner) ==
    LET values == split(inner)
    IN PyMap([i \in 1..Len(values) |-> str_index(i - 1)],
             [i \in 1..Len(values) |-> _convert_value(values[i])])

\* _to_struct: JSON is tried if a quote shows, then the fields are read by
\* name if an = sign shows, by position otherwise.
\* _parse_named_struct: the pairs with an = sign and a plain key; a value
\* shaped like a struct is read as one, if it can be.
RECURSIVE _to_struct(_), _parse_named_struct(_)
_to_struct(varchar_value) ==
    IF ~(startswith(varchar_value, "{") /\ endswith(varchar_value, "}")) THEN PyNone
    ELSE LET decoded == json_loads(varchar_value)
             inner == inside(varchar_value)
         IN IF (\E i \in 1..Len(inner) : inner[i] \in Quoted) /\ decoded # <<>>
            THEN IF decoded[1].py = "dict" THEN decoded[1] ELSE PyNone
            ELSE IF inner = <<>> THEN PyDict(<<>>)
            ELSE IF contains(inner, "=") THEN _parse_named_struct(inner)
            ELSE _parse_unnamed_struct(inner)
_parse_named_struct(inner) ==
    LET pairs == _split_array_items(inner)
        kept == [i \in 1..Len(pairs) |->
                    contains(pairs[i], "=") /\ ~special(key_of(pairs[i]))]
        field(pair) ==
            LET value == value_of(pair)
                nested_struct == _to_struct(value)
            IN IF startswith(value, "{") /\ endswith(value, "}") /\ nested_struct # PyNone
               THEN nested_struct
               ELSE _convert_value(value)
        keys == SelectSeq2([i \in 1..Len(pairs) |->
                              IF kept[i] THEN key_of(pairs[i]) ELSE <<>>], kept)
        values == SelectSeq2([i \in 1..Len(pairs) |->
                                IF kept[i] THEN field(pairs[i]) ELSE PyNone], kept)
    IN IF values # <<>> THEN PyMap(keys, values) ELSE PyNone

\* _parse_map_native: the pairs with an = sign whose key and value are plain
_parse_map_native(inner) ==
    LET pairs == split(inner)
        kept == [i \in 1..Len(pairs) |->
                    /\ contains(pairs[i], "=")
                    /\ ~special(key_of(pairs[i])) /\ ~special(value_of(pairs[i]))]
        keys == SelectSeq2([i \in 1..Len(pairs) |->
                              IF kept[i] THEN str(_convert_value(key_of(pairs[i]))) ELSE <<>>],
                           kept)
        values == SelectSeq2([i \in 1..Len(pairs) |->
                                IF kept[i] THEN _convert_value(value_of(pairs[i])) ELSE PyNone],
                             kept)
    IN IF values # <<>> THEN PyMap(keys, values) ELSE PyNone

\* _to_map: the conversion of a map cell without a type hint
_to_map(varchar_value) ==
    IF ~(startswith(varchar_value, "{") /\ endswith(varchar_value, "}")) THEN PyNone
    ELSE LET decoded == json_loads(varchar_value)
             inner == inside(varchar_value)
         IN IF (\E i \in 1..Len(inner) : inner[i] \in Quoted) /\ decoded # <<>>
            THEN IF decoded[1].py = "dict" THEN decoded[1] ELSE PyNone
            ELSE IF inner = <<>> THEN PyDict(<<>>)
            ELSE IF contains(inner, "[") \/ contains(inner, "]") THEN PyNone
            ELSE _parse_map_native(inner)

\* _parse_array_native: struct-shaped items through _to_struct, items with
\* brackets or quotes skipped, the others through _convert_value
_parse_array_native(inner) ==
    LET items == _split_array_items(inner)
        is_struct(item) == startswith(item, "{") /\ endswith(item, "}")
        converted == [i \in 1..Len(items) |->
                        IF is_struct(items[i]) THEN _to_struct(items[i])
                        ELSE _convert_value(items[i])]
        appended == [i \in 1..Len(items) |->
                        /\ items[i] # <<>>
                        /\ IF is_struct(items[i]) THEN converted[i] # PyNone
                           ELSE \A k \in 1..Len(items[i]) :
                                   items[i][k] \notin {"[", "]"} \cup Quoted]
        results == SelectSeq2(converted, appended)
    IN IF results # <<>> THEN PyList(results) ELSE PyNone

\* _to_array: the conversion of an array cell without a type hint
_to_array(varchar_value) ==
    IF ~(startswith(varchar_value, "[") /\ endswith(varchar_value, "]")) THEN PyNone
    ELSE LET decoded == json_loads(varchar_value)
             inner == inside(varchar_value)
         IN IF decoded # <<>> /\ decoded[1].py = "list" THEN decoded[1]
            ELSE IF inner = <<>> THEN PyList(<<>>)
            ELSE IF contains(inner, "[") THEN PyNone
            ELSE _parse_array_native(inner)

\* parse_type_signature on the hints used here: the TypeNode
parse_type_signature(type_str) ==
    LET TypeNode(type_name, children, field_names) ==
            [type_name |-> type_name, children |-> children, field_names |-> field_names]
    IN CASE type_str = "array(integer)" -> TypeNode("array", <<"integer">>, <<>>)
         [] type_str = "array(varchar)" -> TypeNode("array", <<"varchar">>, <<>>)
         [] type_str = "array(decimal)" -> TypeNode("array", <<"decimal">>, <<>>)
         [] type_str = "map(varchar, integer)" -> TypeNode("map", <<"varchar", "integer">>, <<>>)
         [] type_str = "map(varchar, varchar)" -> TypeNode("map", <<"varchar", "varchar">>, <<>>)
         [] type_str = "map(varchar, decimal)" -> TypeNode("map", <<"varchar", "decimal">>, <<>>)
         [] type_str = "row(a integer, b integer)"
              -> TypeNode("row", <<"integer", "integer">>, <<"a", "b">>)
         [] type_str = "row(a varchar, b varchar)"
              -> TypeNode("row", <<"varchar", "varchar">>, <<"a", "b">>)
         [] type_str = "row(a decimal, b decimal)"
              -> TypeNode("row", <<"decimal", "decimal">>, <<"a", "b">>)
         [] OTHER -> TypeNode(type_str, <<>>, <<>>)

\* _convert_value_with_type for a simple type: the converter of the table
ConvertSimple(value, type_name) ==
    CASE type_name = "integer" -> _to_int(value)
      [] type_name = "decimal" -> _to_decimal(value)
      [] OTHER -> _to_default(value)

\* an element conversion that knows null in lower case only
_convert_elementLowerCaseOnly(value, type_name) ==
    IF value = <<"null">> THEN PyNone ELSE ConvertSimple(value, type_name)

\* _convert_element: None for null before the type's conversion
_convert_element(value, type_name) ==
    IF is_null(value) THEN PyNone ELSE ConvertSimple(value, type_name)

\* _convert_typed_array: the conversion of an array cell with a type hint
_convert_typed_array(value, type_node) ==
    IF ~(startswith(value, "[") /\ endswith(value, "]")) THEN PyNone
    ELSE LET element_type == type_node.children[1]
             parsed == json_loads(value)
             inner == inside(value)
             items == _split_array_items(inner)
             converted == [i \in 1..Len(items) |->
                             IF startswith(items[i], "{") /\ endswith(items[i], "}")
                             THEN _to_struct(items[i])
                             ELSE _convert_element(items[i], element_type)]
             results == SelectSeq2(converted, [i \in 1..Len(items) |-> items[i] # <<>>])
         IN IF parsed # <<>> /\ parsed[1].py = "list"
            THEN ListOf([i \in 1..Len(parsed[1].items) |->
                           IF parsed[1].items[i] = PyNone THEN PyNone
                           ELSE _convert_element(str(parsed[1].items[i]), element_type)])
            ELSE IF inner = <<>> THEN PyList(<<>>)
            ELSE IF contains(inner, "[") THEN PyNone
            ELSE IF results # <<>> THEN ListOf(results) ELSE PyNone

\* _convert_typed_map: the conversion of a map cell with a type hint
_convert_typed_map(value, type_node) ==
    IF ~(startswith(value, "{") /\ endswith(value, "}")) THEN PyNone
    ELSE LET key_type == type_node.children[1]
             value_type == type_node.children[2]
             parsed == json_loads(value)
             inner == inside(value)
             pairs == split(inner)
             kept == [i \in 1..Len(pairs) |->
                         /\ contains(pairs[i], "=")
                         /\ ~special(key_of(pairs[i])) /\ ~special(value_of(pairs[i]))]
             keys == SelectSeq2([i \in 1..Len(pairs) |->
                                   IF kept[i]
                                   THEN str(_convert_element(key_of(pairs[i]), key_type))
                                   ELSE <<>>], kept)
             values == SelectSeq2([i \in 1..Len(pairs) |->
                                     IF kept[i]
                                     THEN _convert_element(value_of(pairs[i]), value_type)
                                     ELSE PyNone], kept)
         IN IF /\ \E i \in 1..Len(inner) : inner[i] \in Quoted
               /\ parsed # <<>> /\ parsed[1].py = "dict"
            THEN DictOf(parsed[1].v,
                        [i \in 1..Len(parsed[1].items) |->
                           IF parsed[1].items[i] = PyNone THEN PyNone
                           ELSE _convert_element(str(parsed[1].items[i]), value_type)])
            ELSE IF inner = <<>> THEN PyDict(<<>>)
            ELSE IF contains(inner, "[") \/ contains(inner, "]") THEN PyNone
            ELSE IF values # <<>> THEN DictOf(keys, values) ELSE PyNone

\* _get_field_type: the type of a struct field, by name, else by position,
\* else varchar
_get_field_type(field_name, field_names, field_types, field_index) ==
    IF /\ \E idx \in 1..Len(field_names) : <<field_names[idx]>> = field_name
       /\ (CHOOSE idx \in 1..Len(field_names) :
              /\ <<field_names[idx]>> = field_name
              /\ \A j \in 1..(idx - 1) : <<field_names[j]>> # field_name) <= Len(field_types)
    THEN field_types[CHOOSE idx \in 1..Len(field_names) :
                       /\ <<field_names[idx]>> = field_name
                       /\ \A j \in 1..(idx - 1) : <<field_names[j]>> # field_name]
    ELSE IF field_index < Len(field_types) THEN field_types[field_index + 1]
    ELSE "varchar"

\* _convert_typed_struct: the conversion of a struct cell with a type hint,
\* by name if an = sign shows, by position otherwise
_convert_typed_struct(value, type_node) ==
    IF ~(startswith(value, "{") /\ endswith(value, "}")) THEN PyNone
    ELSE LET field_names == type_node.field_names
             field_types == type_node.children
             parsed == json_loads(value)
             inner == inside(value)
             pairs == _split_array_items(inner)
             kept == [i \in 1..Len(pairs) |->
                         contains(pairs[i], "=") /\ ~special(key_of(pairs[i]))]
             \* field_index when the i-th pair is read
             field_index(i) == Cardinality({j \in 1..(i - 1) : kept[j]})
             field(i) ==
                 LET k == key_of(pairs[i])
                     v == value_of(pairs[i])
                     ft == _get_field_type(k, field_names, field_types, field_index(i))
                 IN IF startswith(v, "{") /\ endswith(v, "}") THEN _to_struct(v)
                    ELSE _convert_element(v, ft)
             keys == SelectSeq2([i \in 1..Len(pairs) |->
                                   IF kept[i] THEN key_of(pairs[i]) ELSE <<>>], kept)
             fields == SelectSeq2([i \in 1..Len(pairs) |->
                                     IF kept[i] THEN field(i) ELSE PyNone], kept)
             values == split(inner)
             names == [i \in 1..Len(values) |->
                         IF i <= Len(field_names) THEN <<field_names[i]>> ELSE str_index(i - 1)]
             unnamed == [i \in 1..Len(values) |->
                           _convert_element(values[i],
                                            IF i <= Len(field_types) THEN field_types[i]
                                            ELSE "varchar")]
         IN IF /\ \E i \in 1..Len(inner) : inner[i] \in Quoted
               /\ parsed # <<>> /\ parsed[1].py = "dict"
            THEN DictOf(parsed[1].v,
                        [i \in 1..Len(parsed[1].items) |->
                           IF parsed[1].items[i] = PyNone THEN PyNone
                           ELSE _convert_element(str(parsed[1].items[i]),
                                                 IF i <= Len(field_types) THEN field_types[i]
                                                 ELSE "varchar")])
            ELSE IF inner = <<>> THEN PyDict(<<>>)
            ELSE IF contains(inner, "=")
                 THEN IF fields # <<>> THEN DictOf(keys, fields) ELSE PyNone
            ELSE DictOf(names, unnamed)

\* _convert_value_with_type
_convert_value_with_type(value, type_node) ==
    IF type_node.type_name = "array" THEN _convert_typed_array(value, type_node)
    ELSE IF type_node.type_name = "map" THEN _convert_typed_map(value, type_node)
    ELSE IF type_node.type_name \in {"row", "struct"} THEN _convert_typed_struct(value, type_node)
    ELSE ConvertSimple(value, type_node.type_name)

\* DefaultTypeConverter.convert of a cell that is not None; type_hint "" is
\* no hint, and self.get(type_) is the converter of the column's type
convert(type_, value, type_hint) ==
    IF type_hint # "" THEN _convert_value_with_type(value, parse_type_signature(type_hint))
    ELSE IF type_ = "array" THEN _to_array(value)
    ELSE IF type_ = "map" THEN _to_map(value)
    ELSE IF type_ = "row" THEN _to_struct(value)
    ELSE _to_default(value)

\* ------------------------------------------- functions called on their own
\* the state of the cursor machine, which a function called on its own
\* leaves alone
machine_vars == <<execs, now, pc, op, kill_on_interrupt, on_start_query_execution,
                  query_id, result_set, query_execution, resumed, outcome, calls,
                  warning_enabled, open_result_sets, table, arraysize, many,
                  fetched, futures>>

\* the substatement types an execution reports, in the spellings a
\* response may carry; "" is None
SubstatementTypes ==
    {"", "INSERT", "UPDATE", "DELETE", "MERGE", "CREATE_TABLE_AS_SELECT", "SELECT",
     "EXPLAIN", "ALTER_TABLE_ADD_PARTITION", "insert", "Merge", "select"}

\* str.upper on those spellings
upper(s) ==
    CASE s = "insert" -> "INSERT"
      [] s = "Merge" -> "MERGE"
      [] s = "select" -> "SELECT"
      [] OTHER -> s

\* a response handler that takes the count of any statement
_process_update_countAnyStatement(rowcount, substatement_type, update_count) ==
    IF update_count # <<>> THEN update_count[1] ELSE rowcount

\* AthenaResultSet._process_update_count: self._rowcount after the first
\* page's response; update_count is <<>> when the response has no UpdateCount
_process_update_count(rowcount, substatement_type, update_count) ==
    IF /\ update_count # <<>>
       /\ substatement_type # ""
       /\ upper(substatement_type) \in {"INSERT", "UPDATE", "DELETE", "MERGE",
                                        "CREATE_TABLE_AS_SELECT"}
    THEN update_count[1]
    ELSE rowcount

\* the first pages _pre_fetch can hand to _process_update_count
UpdateCountArgs ==
    [fn : {"_process_update_count"}, substatement_type : SubstatementTypes,
     update_count : {<<>>} \cup {<<n>> : n \in 0..MaxUpdateCount}]

\* _pre_fetch processes the update count of the first page of a result set
\* whose _rowcount is the -1 CursorIterator.__init__ gave it
ProcessUpdateCount ==
    /\ args.fn = "_process_update_count" /\ result = <<>>
    /\ result' = <<[rowcount |-> _process_update_count(-1, args.substatement_type,
                                                       args.update_count)]>>
    /\ UNCHANGED <<machine_vars, args>>

\* the assignments to arraysize: the value the cursor holds and the value
\* assigned, small ones and the ones around DEFAULT_FETCH_SIZE
ArraysizeArgs ==
    [fn : {"Cursor.arraysize", "WithFetch.arraysize"},
     arraysize : (1..MaxArraysize) \cup {DEFAULT_FETCH_SIZE},
     value : (-1..MaxArraysize) \cup {DEFAULT_FETCH_SIZE - 1, DEFAULT_FETCH_SIZE,
                                      DEFAULT_FETCH_SIZE + 1, 10 * DEFAULT_FETCH_SIZE}]

\* cursor.arraysize = value on a Cursor
SetCursorArraysize ==
    /\ args.fn = "Cursor.arraysize" /\ result = <<>>
    /\ result' = <<Cursor_arraysize(args.arraysize, args.value)>>
    /\ UNCHANGED <<machine_vars, args>>

\* cursor.arraysize = value on a cursor that keeps WithFetch's setter
SetWithFetchArraysize ==
    /\ args.fn = "WithFetch.arraysize" /\ result = <<>>
    /\ result' = <<WithFetch_arraysize(args.arraysize, args.value)>>
    /\ UNCHANGED <<machine_vars, args>>

\* the atoms of a cell; "" stands for an item that is empty
Atoms == {"1", "a", "null", "NULL", "Null", "\"\"", "\"null\""}

\* the items of a cell joined by commas, from the i-th on
RECURSIVE Join(_, _)
Join(items, i) ==
    IF i > Len(items) THEN <<>>
    ELSE (IF i > 1 THEN <<",">> ELSE <<>>)
         \o (IF items[i] = "" THEN <<>> ELSE <<items[i]>>)
         \o Join(items, i + 1)

\* the cells: up to MaxItems items between an opening and a closing that
\* need not match, so that well-formed arrays, arrays of arrays and of
\* structs, wrong shapes and unbalanced nestings all occur
Openings == {<<>>, <<"[">>, <<"{">>, <<"[", "[">>, <<"[", "{">>}
Closings == {<<>>, <<"]">>, <<"}">>, <<"]", "]">>, <<"}", "]">>}
Cells ==
    {opening \o Join(items, 1) \o closing :
        opening \in Openings, closing \in Closings,
        items \in UNION {[1..n -> Atoms \cup {""}] : n \in 0..MaxItems}}

\* the type hints of an array column; "" is no hint
TypeHints == {"", "array(integer)", "array(varchar)", "array(decimal)"}

\* the cells of a map or struct column: up to MaxItems items between
\* braces, the closing one possibly missing; an item is a pair of the key
\* of its position and a value, or a value alone
KeyNames == <<"a", "b", "c", "d">>
Values == {"1", "null", "NULL", "Null", "\"\"", ""}
Pair(i, item) ==
    IF item.named THEN <<KeyNames[i], "=">> \o (IF item.value = "" THEN <<>> ELSE <<item.value>>)
    ELSE IF item.value = "" THEN <<>> ELSE <<item.value>>
RECURSIVE JoinPairs(_, _)
JoinPairs(items, i) ==
    IF i > Len(items) THEN <<>>
    ELSE (IF i > 1 THEN <<",">> ELSE <<>>) \o Pair(i, items[i]) \o JoinPairs(items, i + 1)
DictCells ==
    {<<"{">> \o JoinPairs(items, 1) \o closing :
        closing \in {<<>>, <<"}">>},
        items \in UNION {[1..n -> [named : BOOLEAN, value : Values]] : n \in 0..MaxItems}}
MapHints == {"", "map(varchar, integer)", "map(varchar, varchar)", "map(varchar, decimal)"}
RowHints == {"", "row(a integer, b integer)", "row(a varchar, b varchar)",
             "row(a decimal, b decimal)"}

\* the cells of a complex column _get_rows hands to convert
ConvertArgs ==
    [fn : {"convert"}, type_ : {"array"}, value : Cells, type_hint : TypeHints]
    \cup [fn : {"convert"}, type_ : {"map"}, value : DictCells, type_hint : MapHints]
    \cup [fn : {"convert"}, type_ : {"row"}, value : DictCells, type_hint : RowHints]

\* _get_rows converts one cell
ConvertCell ==
    /\ args.fn = "convert" /\ result = <<>>
    /\ result' = <<convert(args.type_, args.value, args.type_hint)>>
    /\ UNCHANGED <<machine_vars, args>>

\* the calls the functions are checked on
FunctionArgs == UpdateCountArgs \cup ArraysizeArgs \cup ConvertArgs

\* an idle cursor, and one call of one function about to be made
InitFunctions ==
    /\ execs = <<>>
    /\ now = 0
    /\ pc = "idle"
    /\ op = NoOperation
    /\ kill_on_interrupt = TRUE
    /\ on_start_query_execution = FALSE
    /\ query_id = 0
    /\ result_set = <<>>
    /\ query_execution = <<>>
    /\ resumed = FALSE
    /\ outcome = NoOutcome
    /\ calls = NoCalls
    /\ warning_enabled = FALSE
    /\ open_result_sets = 0
    /\ table = DefaultTable
    /\ arraysize = DEFAULT_FETCH_SIZE
    /\ many = NoExecutemany
    /\ fetched = NoFetch
    /\ futures = <<>>
    /\ args \in FunctionArgs
    /\ result = <<>>

NextFunctions ==
    \/ ProcessUpdateCount
    \/ SetCursorArraysize
    \/ SetWithFetchArraysize
    \/ ConvertCell

SpecFunctions == InitFunctions /\ [][NextFunctions]_vars

\* the spellings of the substatement types whose count becomes the rowcount
CountedStatements ==
    {"INSERT", "UPDATE", "DELETE", "MERGE", "CREATE_TABLE_AS_SELECT", "insert", "Merge"}

\* C23: after the first page, rowcount is the page's UpdateCount if the
\* statement is an INSERT, UPDATE, DELETE, MERGE or CREATE_TABLE_AS_SELECT
\* (and the page carries a count), and -1 for every other statement
C23_RowcountOnlyForCountedStatements ==
    (args.fn = "_process_update_count" /\ result # <<>>) =>
        /\ (args.substatement_type \in CountedStatements /\ args.update_count # <<>>)
              => result[1].rowcount = args.update_count[1]
        /\ args.substatement_type \notin CountedStatements => result[1].rowcount = -1
        /\ args.update_count = <<>> => result[1].rowcount = -1

C23_Witness ==
    /\ args = [fn |-> "_process_update_count", substatement_type |-> "INSERT",
               update_count |-> <<2>>]
    /\ result = <<[rowcount |-> 2]>>

\* an assignment to arraysize has been made
ArraysizeSet == args.fn \in {"Cursor.arraysize", "WithFetch.arraysize"} /\ result # <<>>
\* the assignment was refused and the cursor holds the value it held
Refused == result[1] = [raised |-> "ProgrammingError", arraysize |-> args.arraysize]

\* C24 as stated: on any cursor, assigning 0, a negative number or a number
\* above 1000 raises ProgrammingError and leaves arraysize as it was
C24_Original ==
    (ArraysizeSet /\ (args.value <= 0 \/ args.value > 1000)) => Refused

\* C24: assigning 0 or a negative number to arraysize raises
\* ProgrammingError and leaves arraysize as it was on every cursor;
\* assigning a number above 1000 does so on a Cursor, while a cursor that
\* keeps WithFetch's setter takes the number
C24_InvalidArraysizeIsRefused ==
    ArraysizeSet =>
        /\ args.value <= 0 => Refused
        /\ (args.value > 1000 /\ args.fn = "Cursor.arraysize") => Refused
        /\ (args.value > 1000 /\ args.fn = "WithFetch.arraysize") =>
              result[1] = [raised |-> "", arraysize |-> args.value]

C24_Witness ==
    /\ args = [fn |-> "Cursor.arraysize", arraysize |-> 2, value |-> 1001]
    /\ result = <<[raised |-> "ProgrammingError", arraysize |-> 2]>>

\* C25: closing a result set leaves it without its connection, with an
\* empty row buffer and without a pagination token, and raises nothing;
\* closing a result set that is closed already changes nothing of it
C25_CloseIsIdempotent ==
    [][ (FetchStep("result_set.close") \/ FetchStep("close")) =>
          /\ fetched'.kind = "returned"
          /\ is_closed(result_set'[1])
          /\ result_set'[1].rows = <<>> /\ result_set'[1].next_token = 0
          /\ is_closed(result_set[1]) =>
                (result_set' = result_set /\ open_result_sets' = open_result_sets)
    ]_vars

\* C25 witness: close was called on a result set that was closed already,
\* some of whose rows had been fetched
C25_Witness ==
    /\ Idle
    /\ result_set # <<>> /\ is_closed(result_set[1])
    /\ result_set[1].delivered # <<>>
    /\ fetched = [Gave("result_set.close", "returned", <<>>, <<>>) EXCEPT !.closed = TRUE]
    /\ open_result_sets = 0

\* C26: every operation on a closed result set (fetchone, fetchmany,
\* fetchall, a page fetch) raises ProgrammingError
C26_ClosedResultSetRaises ==
    (fetched.closed /\ fetched.call \in FetchCalls \cup {"_fetch"}) =>
        fetched.kind = "ProgrammingError"

\* the error taxonomy, and the ways a call ends within it
Taxonomy == {"ProgrammingError", "DatabaseError", "OperationalError", "DataError"}
WellDefined == {"none", "returned"} \cup Taxonomy

RECURSIVE Nested(_, _)
Nested(rest, open) ==
    IF rest = <<>> THEN open = <<>>
    ELSE IF Head(rest) \in {"[", "{"} THEN Nested(Tail(rest), <<Head(rest)>> \o open)
    ELSE IF Head(rest) \in {"]", "}"}
         THEN /\ open # <<>>
              /\ Head(open) = (IF Head(rest) = "]" THEN "[" ELSE "{")
              /\ Nested(Tail(rest), Tail(open))
    ELSE Nested(Tail(rest), open)

\* the cell makes no structural sense as an array: it is not in brackets,
\* or its nesting is unbalanced
Malformed(value) ==
    \/ ~(startswith(value, "[") /\ endswith(value, "]"))
    \/ ~Nested(value, <<>>)

\* a cell has been converted with a type hint
Hinted == args.fn = "convert" /\ args.type_hint # "" /\ result # <<>>

\* C28: for a cell that makes no structural sense, convert with a type hint
\* raises nothing and gives what the conversion without the hint gives
C28_MalformedCellFallsBack ==
    (Hinted /\ Malformed(args.value)) =>
        /\ result[1].py \notin Exceptions
        /\ result[1] = convert(args.type_, args.value, "")

\* the members of the cell converted, as the converter reads them: the items
\* of an array, the values of the pairs of a map or of a struct with names,
\* the items of a struct without names
Items == split(inside(args.value))
Named == \A i \in 1..Len(Items) : contains(Items[i], "=")
Members ==
    IF args.type_ # "array" /\ Named THEN [i \in 1..Len(Items) |-> value_of(Items[i])]
    ELSE Items
\* the cell is one flat structure and each of its members was converted
Converted ==
    /\ args.fn = "convert" /\ result # <<>>
    /\ \A i \in 2..(Len(args.value) - 1) : args.value[i] \notin {"[", "]", "{", "}"}
    /\ IF args.type_ = "array"
       THEN startswith(args.value, "[") /\ endswith(args.value, "]")
       ELSE /\ startswith(args.value, "{") /\ endswith(args.value, "}")
            /\ Named \/ (args.type_ = "row" /\ ~contains(args.value, "="))
    /\ result[1].py \in {"list", "dict"}
    /\ Len(result[1].items) = Len(Items)
\* the i-th member is the token null, in one of its spellings
NullMember(i) == Members[i] \in {<<"null">>, <<"NULL">>, <<"Null">>}
\* the i-th member is an empty string: "" in a JSON array, nothing after
\* the = sign or between the commas of a map or struct
EmptyMember(i) ==
    IF args.type_ = "array"
    THEN Members[i] = <<"\"\"">> /\ json_loads(args.value) # <<>>
    ELSE Members[i] = <<>>
\* the type the hint gives the i-th member; varchar without a hint
MemberType(i) ==
    LET type_node == parse_type_signature(args.type_hint)
    IN IF args.type_hint = "" THEN "varchar"
       ELSE IF args.type_ = "array" THEN type_node.children[1]
       ELSE IF args.type_ = "map" THEN type_node.children[2]
       ELSE IF i <= Len(type_node.children) THEN type_node.children[i]
       ELSE "varchar"

NewRequests ==
    SubSeq(result_set'[1].requests, Len(result_set[1].requests) + 1,
           Len(result_set'[1].requests))
\* the step asked the service for a page: the request is on record, or it
\* failed and the call raised OperationalError
Requested == NewRequests # <<>> \/ fetched'.kind = "OperationalError"
\* the number, among the rows of the result, of the first row of the page
\* behind a token
FirstRowOf(token) == token - (IF table.header THEN 1 ELSE 0)

\* C30: a fetchone requests the next page exactly when it finds the row
\* buffer empty and a pagination token present; no fetch call requests a
\* page without a token or before the rows ahead of that page are handed
\* out (the first row of every page requested is delivered by the call that
\* requested it), and the buffer never holds more than one page.
C30_NextPageOnlyWhenBufferEmpty ==
    [][(FetchStep("fetchone") \/ FetchStep("fetchmany") \/ FetchStep("fetchall")) =>
          /\ FetchStep("fetchone") =>
                (Requested <=> (result_set[1].rows = <<>> /\ result_set[1].next_token # 0))
          /\ Requested => result_set[1].next_token # 0
          /\ \A i \in 1..Len(NewRequests) :
                /\ NewRequests[i] # 0
                /\ FirstRowOf(NewRequests[i]) <= Len(result_set'[1].delivered)
                /\ FirstRowOf(NewRequests[i]) >
                      Len(result_set[1].delivered) + Len(result_set[1].rows)
          /\ Len(result_set'[1].rows) <= result_set'[1].arraysize]_vars

\* a fetchone found the buffer empty, requested the second page and
\* returned its first row, with rows of the result still to come
C30_Witness ==
    /\ result_set # <<>>
    /\ fetched.call = "fetchone" /\ fetched.kind = "returned"
    /\ Len(result_set[1].requests) = 2
    /\ FirstRowOf(result_set[1].requests[2]) = Len(result_set[1].delivered)
    /\ fetched.rows = <<Len(result_set[1].delivered)>>
    /\ Len(result_set[1].delivered) < table.rows

\* ------------------------------------- the cache lookup on a given history
\* an execution of the history, as the service holds it: query text, state
\* and, for a SUCCEEDED DML execution, completion time
Listed(q, state, completed) ==
    [NewExecution(q) EXCEPT !.state = state,
                            !.state_change_reason = StateChangeReason(state),
                            !.completion_date_time = completed]
HistoryExecutions ==
    {Listed("SELECT 1", STATE_RUNNING, -1), Listed("CREATE TABLE t", STATE_SUCCEEDED, -1)}
    \cup {Listed(q, STATE_SUCCEEDED, t) : q \in {"SELECT 1", OtherQuery}, t \in 0..MaxTime}
Histories == UNION {[1..n -> HistoryExecutions] : n \in 0..MaxHistory}

\* execute has been entered on a fresh cursor; the work group holds the
\* executions of other clients, some of them finished out of the order of
\* their submission
InitLookup ==
    /\ execs \in Histories
    /\ now = MaxTime
    /\ pc = "execute"
    /\ op = NoOperation
    /\ kill_on_interrupt = TRUE
    /\ on_start_query_execution = FALSE
    /\ query_id = 0
    /\ result_set = <<>>
    /\ query_execution = <<>>
    /\ resumed = FALSE
    /\ outcome = NoOutcome
    /\ calls = NoCalls
    /\ warning_enabled = FALSE
    /\ open_result_sets = 0
    /\ table = DefaultTable
    /\ arraysize = DEFAULT_FETCH_SIZE
    /\ many = NoExecutemany
    /\ fetched = NoFetch
    /\ futures = <<>>
    /\ args = NoArgs
    /\ result = <<>>

\* the lookup of one execute, with its arguments
NextLookup ==
    /\ \/ \E cache_size \in 0..MaxBudget, cache_expiration_time \in 0..MaxCacheExpiration :
             PrepareQuery("SELECT 1", cache_size, cache_expiration_time, FALSE)
       \/ FindPreviousQueryId
       \/ FindPreviousQueryIdFails
    /\ UNCHANGED <<warning_enabled, table, arraysize, many, fetched, futures, args, result>>

SpecLookup == InitLookup /\ [][NextLookup]_vars

\* the sum of the page sizes requested
RECURSIVE Sum(_)
Sum(pages) == IF pages = <<>> THEN 0 ELSE Head(pages) + Sum(Tail(pages))
\* the budget of a lookup: cache_size, all the history if it is 0 and an
\* expiration time is given
Budget == IF op.cache_size = 0 /\ op.cache_expiration_time > 0 THEN maxsize ELSE op.cache_size
\* the lookup of the running execute ends, by its return or by a failure
LookupEnds == pc = "find" /\ pc' # "find"

InitPages ==
    /\ execs = <<>>
    /\ now = 0
    /\ pc = "idle"
    /\ op = NoOperation
    /\ kill_on_interrupt = TRUE
    /\ on_start_query_execution = FALSE
    /\ query_id = 0
    /\ result_set = <<>>
    /\ query_execution = <<>>
    /\ resumed = FALSE
    /\ outcome = NoOutcome
    /\ calls = NoCalls
    /\ warning_enabled = FALSE
    /\ open_result_sets = 0
    /\ \E rows \in 0..MaxRows :
          table \in [rows : {rows}, header : BOOLEAN, labels : SUBSET (1..rows)]
    /\ arraysize \in 1..MaxArraysize
    /\ many = NoExecutemany
    /\ fetched = NoFetch
    /\ futures = <<>>
    /\ args = NoArgs
    /\ result = <<>>

\* executes that run to the end and fetches on that cursor
NextPages ==
    /\ \/ CallExecute
       \/ /\ \/ PrepareQuery("SELECT 1", 0, 0, FALSE)
             \/ FindPreviousQueryId
             \/ StartQueryExecution
             \/ OnStartCursor
             \/ OnStartExecute
             \/ GetQueryExecution
             \/ BuildResultSet
             \/ BuildResultSetFails
             \/ \E id \in 1..Len(execs) : ServiceRun(id)
             \/ \E id \in 1..Len(execs) : ServiceFinish(id, STATE_SUCCEEDED)
          /\ UNCHANGED <<warning_enabled, table, arraysize, many, fetched>>
       \/ \E ok \in {0, AllSucceed} : Fetchone(ok)
       \/ \E size \in 0..(MaxRows + 1), ok \in {0, 1, AllSucceed} : Fetchmany(size, ok)
       \/ \E ok \in {0, 1, AllSucceed} : Fetchall(ok)
    /\ UNCHANGED <<futures, args, result>>

SpecPages == InitPages /\ [][NextPages]_vars

\* a row all of whose cells equal the column names
LabelLike(row) == row = 0 \/ row \in table.labels
\* the rows of the pages behind a sequence of tokens, each page in full
RECURSIVE PagesOf(_, _)
PagesOf(tokens, size) ==
    IF tokens = <<>> THEN <<>>
    ELSE get_query_results(size, Head(tokens)).rows \o PagesOf(Tail(tokens), size)
\* the rows a result set has taken in and not dropped
TakenIn(rs) == rs.delivered \o rs.rows
\* the step constructs the cursor's result set
Constructed == result_set = <<>> /\ result_set' # <<>>

\* C32: a leading row equal to the column names is detected and removed
\* only on the first page, fetched when the result set is constructed;
\* every later page is appended to the buffer in full.
C32_LabelRowDroppedOnFirstPageOnly ==
    [][/\ Constructed =>
             LET page == get_query_results(result_set'[1].arraysize, 0).rows
             IN /\ result_set'[1].requests = <<0>>
                /\ result_set'[1].rows =
                      IF page # <<>> /\ LabelLike(page[1]) THEN Tail(page) ELSE page
       /\ (FetchStep("fetchone") \/ FetchStep("fetchmany") \/ FetchStep("fetchall")) =>
             TakenIn(result_set'[1]) =
                TakenIn(result_set[1]) \o PagesOf(NewRequests, result_set[1].arraysize)]_vars

\* a later page began with a row of column names and the row was handed
\* out, after the first page lost its leading row of column names
C32_Witness ==
    /\ result_set # <<>>
    /\ Len(result_set[1].requests) >= 2
    /\ \E i \in 2..Len(result_set[1].requests) :
          LET row == ResultRows[result_set[1].requests[i]]
          IN row \in table.labels /\ \E k \in 1..Len(result_set[1].delivered) :
                                        result_set[1].delivered[k] = row
    /\ LabelLike(ResultRows[1])
    /\ \A k \in 1..Len(result_set[1].delivered) :
          result_set[1].delivered[k] # ResultRows[1]


\* the rows a complete read of the result hands out: the rows of all pages
\* but a first row that equals the column names
Expected ==
    IF ResultRows # <<>> /\ LabelLike(ResultRows[1]) THEN Tail(ResultRows) ELSE ResultRows
\* the result set has returned, or is about to return, the end marker
AtEnd(rs) == rs.rows = <<>> /\ rs.next_token = 0

RECURSIVE strip(_)
strip(s) ==
    IF s # <<>> /\ Head(s) = " " THEN strip(Tail(s))
    ELSE IF s # <<>> /\ s[Len(s)] = " " THEN strip(SubSeq(s, 1, Len(s) - 1))
    ELSE s
\* str.lower on a signature
lower(s) ==
    [i \in 1..Len(s) |->
        CASE s[i] = "VARCHAR" -> "varchar"
          [] s[i] = "ARRAY" -> "array"
          [] OTHER -> s[i]]
\* str.find("(")
find(s, c) ==
    IF \E i \in 1..Len(s) : s[i] = c
    THEN CHOOSE i \in 1..Len(s) : s[i] = c /\ \A j \in 1..(i - 1) : s[j] # c
    ELSE 0
\* _TYPE_ALIASES.get(name, name)
_TYPE_ALIASES(name) == IF name = <<"int">> THEN <<"integer">> ELSE name

\* the nesting depth after the first i tokens of s
RECURSIVE depth_at(_, _)
depth_at(s, i) ==
    IF i = 0 THEN 0
    ELSE depth_at(s, i - 1) + (IF s[i] = "(" THEN 1 ELSE IF s[i] = ")" THEN -1 ELSE 0)

\* TypeSignatureParser._find_matching_paren
_find_matching_paren(s, open_idx) ==
    LET closes(i) == s[i] = ")" /\ depth_at(s, i) - depth_at(s, open_idx - 1) = 0
    IN IF \E i \in open_idx..Len(s) : closes(i)
       THEN CHOOSE i \in open_idx..Len(s) : closes(i) /\ \A j \in open_idx..(i - 1) : ~closes(j)
       ELSE Len(s)

\* TypeSignatureParser._split_type_args: the loop from token i on, current
\* being the tokens of the part under way
RECURSIVE SplitArgs(_, _, _, _)
SplitArgs(s, i, depth, current) ==
    IF i > Len(s) THEN (IF current # <<>> THEN <<strip(current)>> ELSE <<>>)
    ELSE IF s[i] = "," /\ depth = 0
         THEN <<strip(current)>> \o SplitArgs(s, i + 1, depth, <<>>)
         ELSE SplitArgs(s, i + 1,
                        depth + (IF s[i] = "(" THEN 1 ELSE IF s[i] = ")" THEN -1 ELSE 0),
                        Append(current, s[i]))
\* a split at every comma, nested or not
RECURSIVE SplitFlat(_, _, _)
SplitFlat(s, i, current) ==
    IF i > Len(s) THEN (IF current # <<>> THEN <<strip(current)>> ELSE <<>>)
    ELSE IF s[i] = "," THEN <<strip(current)>> \o SplitFlat(s, i + 1, <<>>)
         ELSE SplitFlat(s, i + 1, Append(current, s[i]))
_split_type_argsFlat(s) == SplitFlat(s, 1, <<>>)
_split_type_args(s) == SplitArgs(s, 1, 0, <<>>)

\* TypeSignatureParser._find_field_name_boundary
_find_field_name_boundary(part) ==
    LET boundary(i) == part[i] = " " /\ depth_at(part, i) = 0
    IN IF \E i \in 1..Len(part) : boundary(i)
       THEN CHOOSE i \in 1..Len(part) : boundary(i) /\ \A j \in 1..(i - 1) : ~boundary(j)
       ELSE 0

\* the dataclass TypeNode
TypeNode(type_name, children, field_names) ==
    [type_name |-> type_name, children |-> children, field_names |-> field_names]

\* TypeSignatureParser.parse
RECURSIVE parse(_)
parse(type_str) ==
    LET s == strip(type_str)
        paren_idx == find(s, "(")
        type_name == _TYPE_ALIASES(lower(strip(SubSeq(s, 1, paren_idx - 1))))
        close_idx == _find_matching_paren(s, paren_idx)
        inner == strip(SubSeq(s, paren_idx + 1, close_idx - 1))
        parts == _split_type_args(inner)
        space_idx(part) == _find_field_name_boundary(part)
    IN IF paren_idx = 0 THEN TypeNode(_TYPE_ALIASES(lower(s)), <<>>, <<>>)
       ELSE IF type_name \in {<<"row">>, <<"struct">>}
       THEN TypeNode(type_name,
                     [i \in 1..Len(parts) |->
                         IF space_idx(parts[i]) = 0 THEN parse(parts[i])
                         ELSE parse(strip(SubSeq(parts[i], space_idx(parts[i]) + 1,
                                                 Len(parts[i]))))],
                     <<[i \in 1..Len(parts) |->
                         IF space_idx(parts[i]) = 0 THEN parts[i]
                         ELSE strip(SubSeq(parts[i], 1, space_idx(parts[i]) - 1))]>>)
       ELSE IF type_name = <<"array">> THEN TypeNode(type_name, <<parse(inner)>>, <<>>)
       ELSE IF type_name = <<"map">>
       THEN (IF Len(parts) = 2
             THEN TypeNode(type_name, <<parse(parts[1]), parse(parts[2])>>, <<>>)
             ELSE TypeNode(type_name, <<>>, <<>>))
       ELSE TypeNode(type_name, <<>>, <<>>)


\* the signatures parsed: simple, parameterized and complex types nested to
\* MaxDepth, a complex type name also standing alone and a map also taking
\* one or three arguments
MaxDepth == 2
Call(name, arguments) == <<name, "(">> \o arguments \o <<")">>
RECURSIVE Signatures(_)
Signatures(depth) ==
    LET simple == {<<"varchar">>, <<"VARCHAR">>, <<"int">>, <<"array">>, <<"map">>, <<"row">>,
                   Call("decimal", <<"10", ",", " ", "2">>)}
    IN IF depth = 0 THEN simple
       ELSE simple \cup UNION {
                {Call("array", x),
                 Call("ARRAY", x),
                 Call("map", <<"varchar", ",", " ">> \o x),
                 Call("map", x),
                 Call("map", <<"varchar", ",", " ">> \o x \o <<",", " ", "int">>),
                 Call("row", <<"a", " ">> \o x \o <<",", " ", "b", " ", "int">>),
                 Call("struct", x)} : x \in Signatures(depth - 1)}

\* a signature about to be parsed
InitParse ==
    /\ execs = <<>>
    /\ now = 0
    /\ pc = "idle"
    /\ op = NoOperation
    /\ kill_on_interrupt = TRUE
    /\ on_start_query_execution = FALSE
    /\ query_id = 0
    /\ result_set = <<>>
    /\ query_execution = <<>>
    /\ resumed = FALSE
    /\ outcome = NoOutcome
    /\ calls = NoCalls
    /\ warning_enabled = FALSE
    /\ open_result_sets = 0
    /\ table = DefaultTable
    /\ arraysize = DEFAULT_FETCH_SIZE
    /\ many = NoExecutemany
    /\ fetched = NoFetch
    /\ futures = <<>>
    /\ args \in [fn : {"parse"}, type_str : Signatures(MaxDepth)]
    /\ result = <<>>

\* TypeSignatureParser().parse(type_str)
Parse ==
    /\ args.fn = "parse" /\ result = <<>>
    /\ result' = <<parse(args.type_str)>>
    /\ UNCHANGED <<machine_vars, args>>

SpecParse == InitParse /\ [][Parse]_vars

\* the signature has been parsed
Parsed == args.fn = "parse" /\ result # <<>>
\* the signature names a type without an argument list
Bare(s) == ~contains(s, "(")
\* the number of arguments between the outermost parentheses of a signature
\* that has them
Arguments(s) ==
    1 + Cardinality({i \in 1..Len(s) : s[i] = "," /\ depth_at(s, i) = 1})
Complex == {<<"array">>, <<"map">>, <<"row">>, <<"struct">>}

\* the invariant of TypeNode, at every depth of the tree
RECURSIVE Invariant(_)
Invariant(node) ==
    /\ node.type_name = <<"array">> => Len(node.children) = 1
    /\ node.type_name = <<"map">> => Len(node.children) = 2
    /\ node.type_name \in {<<"row">>, <<"struct">>} =>
          node.field_names # <<>> /\ Len(node.children) = Len(node.field_names[1])
    /\ node.type_name \notin Complex => Len(node.children) = 0
    /\ \A i \in 1..Len(node.children) : Invariant(node.children[i])

\* the same, a complex type being allowed to have no children and no field
\* names
RECURSIVE InvariantOrChildless(_)
InvariantOrChildless(node) ==
    /\ node.type_name = <<"array">> => Len(node.children) \in {0, 1}
    /\ node.type_name = <<"map">> => Len(node.children) \in {0, 2}
    /\ node.type_name \in {<<"row">>, <<"struct">>} =>
          IF node.field_names = <<>> THEN Len(node.children) = 0
          ELSE Len(node.children) = Len(node.field_names[1])
    /\ node.type_name \notin {<<"row">>, <<"struct">>} => node.field_names = <<>>
    /\ node.type_name \notin Complex => Len(node.children) = 0
    /\ \A i \in 1..Len(node.children) : InvariantOrChildless(node.children[i])

\* C33 as stated: every TypeNode produced by parsing a type signature, at
\* every depth, has 1 child if an array, 2 if a map, as many as field names
\* if a row or struct, and none otherwise.
C33_Original == Parsed => Invariant(result[1])

\* C33: every TypeNode produced by parsing a type signature, at every depth,
\* has 1 child or none if an array, 2 or none if a map, as many children as
\* field names, or neither, if a row or struct, and none otherwise; the node
\* of the signature itself has no children (and no field names) if the type
\* name stands without an argument list, and otherwise 1 child if an array,
\* 2 if a map of two arguments, none if a map of another number of
\* arguments, and as many children as field names if a row or struct.
C33_ChildrenByTypeUnlessBareOrMalformed ==
    Parsed =>
        LET node == result[1]
            s == args.type_str
        IN /\ InvariantOrChildless(node)
           /\ Bare(s) => node.children = <<>> /\ node.field_names = <<>>
           /\ ~Bare(s) =>
                 /\ node.type_name = <<"array">> => Len(node.children) = 1
                 /\ node.type_name = <<"map">> =>
                       Len(node.children) = IF Arguments(s) = 2 THEN 2 ELSE 0
                 /\ node.type_name \in {<<"row">>, <<"struct">>} =>
                       /\ node.field_names # <<>>
                       /\ Len(node.children) = Len(node.field_names[1])

\* a map of a varchar and a row was parsed: two children, the second with
\* two fields
C33_Witness ==
    /\ Parsed
    /\ args.type_str = Call("map", <<"varchar", ",", " ">> \o
                            Call("row", <<"a", " ", "int", ",", " ", "b", " ", "int">>))
    /\ Len(result[1].children) = 2
    /\ result[1].children[2].field_names = <<<< <<"a">>, <<"b">> >>>>
    /\ result[1].children[2].children[1].type_name = <<"integer">>


\* --------------------------------------------------- the cache of type hints
\* Conventions: a converter is a record of its class and its _parsed_hints,
\* a function from the hints parsed to their TypeNode; parsed counts the
\* calls of parse_type_signature per hint that convert calls on the
\* converter have made; a value is <<cell>>, or <<>> for None.
MaxCalls == 3
ConverterClasses == {"DefaultTypeConverter", "DefaultS3FSTypeConverter"}
\* DefaultTypeConverter.__init__
DefaultTypeConverter == [h \in {} |-> <<>>]
NoneParsed == [h \in TypeHints \ {""} |-> 0]

\* DefaultTypeConverter._get_or_parse_hint: the cache after the call, the
\* TypeNode returned and the number of calls of parse_type_signature made
_get_or_parse_hint(_parsed_hints, type_hint) ==
    IF type_hint \notin DOMAIN _parsed_hints
    THEN [_parsed_hints |-> [h \in DOMAIN _parsed_hints \cup {type_hint} |->
                                IF h = type_hint THEN parse_type_signature(type_hint)
                                ELSE _parsed_hints[h]],
          type_node |-> parse_type_signature(type_hint),
          parses |-> 1]
    ELSE [_parsed_hints |-> _parsed_hints, type_node |-> _parsed_hints[type_hint],
          parses |-> 0]

\* DefaultTypeConverter.convert on a converter whose cache is _parsed_hints
DefaultTypeConverter_convert(_parsed_hints, type_, value, type_hint) ==
    IF value = <<>> THEN [_parsed_hints |-> _parsed_hints, value |-> PyNone, parses |-> 0]
    ELSE IF type_hint # ""
    THEN LET got == _get_or_parse_hint(_parsed_hints, type_hint)
         IN [_parsed_hints |-> got._parsed_hints,
             value |-> _convert_value_with_type(value[1], got.type_node),
             parses |-> got.parses]
    ELSE [_parsed_hints |-> _parsed_hints, value |-> convert(type_, value[1], ""),
          parses |-> 0]

\* DefaultS3FSTypeConverter.convert: a hint is handed to a new
\* DefaultTypeConverter
DefaultS3FSTypeConverter_convert(type_, value, type_hint) ==
    IF value = <<>> THEN [value |-> PyNone, parses |-> 0]
    ELSE IF type_hint # ""
    THEN LET dtc == DefaultTypeConverter_convert(DefaultTypeConverter, type_, value, type_hint)
         IN [value |-> dtc.value, parses |-> dtc.parses]
    ELSE [value |-> convert(type_, value[1], ""), parses |-> 0]

\* a converter of either class, just constructed
InitHints ==
    /\ execs = <<>>
    /\ now = 0
    /\ pc = "idle"
    /\ op = NoOperation
    /\ kill_on_interrupt = TRUE
    /\ on_start_query_execution = FALSE
    /\ query_id = 0
    /\ result_set = <<>>
    /\ query_execution = <<>>
    /\ resumed = FALSE
    /\ outcome = NoOutcome
    /\ calls = NoCalls
    /\ warning_enabled = FALSE
    /\ open_result_sets = 0
    /\ table = DefaultTable
    /\ arraysize = DEFAULT_FETCH_SIZE
    /\ many = NoExecutemany
    /\ fetched = NoFetch
    /\ futures = <<>>
    /\ args \in [fn : {"converter"}, class : ConverterClasses,
                 _parsed_hints : {DefaultTypeConverter}, parsed : {NoneParsed},
                 converts : {0}, type_hint : {""}]
    /\ result = <<>>

\* converter.convert("array", value, type_hint) for the cell of one row
ConverterConvert(value, type_hint) ==
    /\ args.fn = "converter" /\ args.converts < MaxCalls
    /\ \E done \in {IF args.class = "DefaultTypeConverter"
                     THEN DefaultTypeConverter_convert(args._parsed_hints, "array", value,
                                                       type_hint)
                     ELSE [_parsed_hints |-> args._parsed_hints] @@
                          DefaultS3FSTypeConverter_convert("array", value, type_hint)} :
          /\ args' = [args EXCEPT
                         !._parsed_hints = done._parsed_hints,
                         !.parsed = IF type_hint = "" THEN @
                                    ELSE [@ EXCEPT ![type_hint] = @ + done.parses],
                         !.converts = @ + 1,
                         !.type_hint = type_hint]
          /\ result' = <<done.value>>
    /\ UNCHANGED machine_vars

NextHints ==
    \E value \in {<<>>, << <<"[", "1", ",", "1", "]">> >>}, type_hint \in TypeHints :
        ConverterConvert(value, type_hint)

SpecHints == InitHints /\ [][NextHints]_vars

\* C34: within one converter instance a type-hint string is parsed at most
\* once; every later convert call with the same hint string reuses the
\* cached TypeNode, so that hints are not parsed again for every row.
C34_HintParsedAtMostOnce ==
    args.fn = "converter" => \A h \in DOMAIN args.parsed : args.parsed[h] <= 1

\* C34 for a DefaultTypeConverter: each hint is parsed at most once and
\* is in the cache from then on
C34_DefaultTypeConverterParsesOnce ==
    (args.fn = "converter" /\ args.class = "DefaultTypeConverter") =>
        \A h \in DOMAIN args.parsed :
            /\ args.parsed[h] = IF h \in DOMAIN args._parsed_hints THEN 1 ELSE 0
            /\ h \in DOMAIN args._parsed_hints =>
                  args._parsed_hints[h] = parse_type_signature(h)

\* a DefaultTypeConverter has converted MaxCalls cells under one hint and
\* parsed the hint once
C34_Witness ==
    /\ args.fn = "converter" /\ args.class = "DefaultTypeConverter"
    /\ args.converts = MaxCalls
    /\ DOMAIN args._parsed_hints = {"array(integer)"}
    /\ args.parsed["array(integer)"] = 1
    /\ result = <<PyList(<<PyInt(<<"1">>), PyInt(<<"1">>)>>)>>


\* ------------------------------------------- completeness of the cache lookup
\* the execution can be reused for the query of the running execute
Reusable(e) ==
    /\ e.state = STATE_SUCCEEDED
    /\ e.statement_type = STATEMENT_TYPE_DML
    /\ e.query = op.query
    /\ op.cache_expiration_time > 0 => e.completion_date_time >= now - op.cache_expiration_time
\* the execution is a candidate of the scan that completed before the
\* expiration window
Expired(e) ==
    /\ e.state = STATE_SUCCEEDED
    /\ e.statement_type = STATEMENT_TYPE_DML
    /\ op.cache_expiration_time > 0
    /\ e.completion_date_time < now - op.cache_expiration_time
\* the places in the service's listing that the budget covers
WithinBudget == 1..Min(Budget, Len(execs))
\* the page of the listing that place k is on
PageOfPlace(k) == (k + LIST_QUERY_EXECUTIONS_MAX_RESULTS - 1) \div LIST_QUERY_EXECUTIONS_MAX_RESULTS

\* C35: if no remote call fails and some execution among the first
\* cache_size executions listed (all of them when the budget is unbounded)
\* is SUCCEEDED, of DML type, completed within the expiration window and has
\* the query text of the request, the cache lookup returns an id.
C35_CacheHitComplete ==
    [][FindPreviousQueryId =>
          ((\E k \in WithinBudget : Reusable(execs[ListedId(k)])) => calls'.cached # 0)]_vars

\* C35 where it holds: the lookup returns an id if a reusable execution is
\* within the budget and no page before its page lists a candidate that
\* completed before the expiration window.
C35_CacheHitUnlessExpiredPageBefore ==
    [][FindPreviousQueryId =>
          ((\E k \in WithinBudget :
               /\ Reusable(execs[ListedId(k)])
               /\ \A j \in 1..(k - 1) :
                     PageOfPlace(j) < PageOfPlace(k) => ~Expired(execs[ListedId(j)]))
             => calls'.cached # 0)]_vars

\* ------------------------------------------- one StopExecution for one poll
\* C36: with kill_on_interrupt set one call of poll issues at most one
\* StopExecution; an interruption that arrives during the cancel call or
\* during the resumed polling is not handled again: it issues no
\* StopExecution and reaches the caller of execute as the interruption.
C36_AtMostOneStopPerPoll ==
    [][kill_on_interrupt =>
          /\ Len(calls'.stop) <= 1
          /\ (resumed /\ calls'.interrupts > calls.interrupts) =>
                /\ pc \in {"cancel", "get", "sleep"}
                /\ pc' = "idle"
                /\ outcome'.kind = "Interrupted"
                /\ calls'.stop = calls.stop
                /\ result_set' = <<>>]_vars

\* a poll was interrupted, issued its StopExecution, polled again and was
\* interrupted a second time: the caller got the interruption
C36_Witness ==
    /\ kill_on_interrupt /\ resumed
    /\ pc = "idle" /\ outcome.kind = "Interrupted"
    /\ calls.interrupts = 2
    /\ calls.stop = <<query_id>>
    /\ Len(calls.get) >= 2


\* ----------------------------------------- execute on a cursor used before
\* a cursor, idle and without a result set
InitReexecute ==
    /\ execs = <<>>
    /\ now = 0
    /\ pc = "idle"
    /\ op = NoOperation
    /\ kill_on_interrupt \in BOOLEAN
    /\ on_start_query_execution = FALSE
    /\ query_id = 0
    /\ result_set = <<>>
    /\ query_execution = <<>>
    /\ resumed = FALSE
    /\ outcome = NoOutcome
    /\ calls = NoCalls
    /\ warning_enabled = FALSE
    /\ open_result_sets = 0
    /\ table = DefaultTable
    /\ arraysize = DEFAULT_FETCH_SIZE
    /\ many = NoExecutemany
    /\ fetched = NoFetch
    /\ futures = <<>>
    /\ args = NoArgs
    /\ result = <<>>

\* the caller calls execute; what the call found is on record: the result
\* set of the cursor, open or closed, if it had one
CallExecuteOn ==
    /\ Idle
    /\ Execute
    /\ fetched' = IF result_set # <<>>
                  THEN GaveOn(result_set[1], "execute", "none", <<>>, <<>>)
                  ELSE Gave("execute", "none", <<>>, <<"no result set">>)
    /\ UNCHANGED <<warning_enabled, table, arraysize, many>>

\* executes of a SELECT, one after another, that the caller may interrupt
NextReexecute ==
    /\ \/ CallExecuteOn
       \/ /\ \/ \E cache_size \in 0..MaxCacheSize : PrepareQuery("SELECT 1", cache_size, 0, FALSE)
             \/ FindPreviousQueryId
             \/ StartQueryExecution
             \/ StartQueryExecutionFails
             \/ OnStartCursor
             \/ OnStartExecute
             \/ GetQueryExecution
             \/ GetQueryExecutionFails
             \/ Sleep
             \/ Interrupt
             \/ StopQueryExecution
             \/ StopQueryExecutionFails
             \/ BuildResultSet
             \/ BuildResultSetFails
             \/ RaiseOperationalError
             \/ \E id \in 1..Len(execs) : ServiceRun(id)
             \/ \E id \in 1..Len(execs), state \in TerminalStates : ServiceFinish(id, state)
          /\ UNCHANGED <<warning_enabled, table, arraysize, many, fetched>>
    /\ UNCHANGED <<futures, args, result>>

SpecReexecute == InitReexecute /\ [][NextReexecute]_vars

\* the step is an execute raising into its caller
ExecuteRaises ==
    /\ pc # "idle" /\ pc' = "idle"
    /\ outcome'.kind \in {"DatabaseError", "OperationalError", "Interrupted"}
\* the running execute was called on a cursor with an open result set
CalledOnOpenResultSet ==
    fetched.call = "execute" /\ fetched.stop = <<>> /\ ~fetched.closed

\* C37: if execute raises (DatabaseError at submission, OperationalError for
\* a FAILED or CANCELLED execution, or an interruption), the result set that
\* was open before the call has been closed, from the entry of execute on,
\* and the cursor is left with no result set.
C37_FailedExecuteDropsPreviousResults ==
    [][/\ CallExecuteOn =>
             /\ result_set' = <<>>
             /\ open_result_sets' = 0
       /\ ExecuteRaises =>
             /\ result_set = <<>> /\ result_set' = <<>>
             /\ open_result_sets' = 0]_vars

\* an execute called on a cursor with an open result set was interrupted:
\* the cursor has no result set and none is open
C37_Witness ==
    /\ CalledOnOpenResultSet
    /\ pc = "idle" /\ outcome.kind = "Interrupted"
    /\ result_set = <<>> /\ open_result_sets = 0
    /\ execs[1].state = STATE_SUCCEEDED


\* --------------------------------------------- an execute of executemany raises
\* an execute called by executemany has raised and executemany has not yet
\* left
RaisedInExecutemany ==
    /\ many.active /\ many.started > 0
    /\ pc = "idle" /\ outcome.kind # "returned"

\* C38: if the k-th execute inside executemany raises, executemany
\* propagates that error at once: no further parameter set is submitted,
\* the final state reset is skipped and the cursor keeps the query id and
\* the (absent) result set the failing execute left; the k-1 statements
\* before it have been executed.
C38_ExecutemanyStopsAtFirstError ==
    [][RaisedInExecutemany =>
          /\ pc' = "idle"
          /\ calls' = calls /\ Len(execs') = Len(execs)
          /\ query_id' = query_id /\ result_set' = result_set
          /\ result_set = <<>> /\ open_result_sets' = open_result_sets
          /\ outcome' = outcome
          /\ many.started >= 2 => \E id \in 1..Len(execs) : execs[id].state = STATE_SUCCEEDED
          /\ many' # many =>
                /\ many' = NoExecutemany
                /\ fetched'.call = "executemany"
                /\ fetched'.kind = outcome.kind
                /\ fetched'.size = many.started]_vars

\* the second execute of an executemany raised after the id was assigned:
\* executemany raised the same error and the cursor still has that id
C38_Witness ==
    /\ pc = "idle" /\ ~many.active
    /\ fetched.call = "executemany" /\ fetched.size = 2
    /\ fetched.kind = "OperationalError" /\ outcome.kind = "OperationalError"
    /\ query_id # 0 /\ result_set = <<>>
    /\ execs[query_id].state = STATE_SUCCEEDED


\* --------------------------------------- the result set and the query id
\* C40: after any sequence of execute, executemany, fetch, cancel and close
\* calls on one cursor, whenever the cursor has an open result set, the
\* cursor's query id is set, is the id of the execution the result set is
\* bound to, and that execution is SUCCEEDED.
C40_OpenResultSetMatchesQueryId ==
    (result_set # <<>> /\ ~is_closed(result_set[1])) =>
        /\ query_id # 0
        /\ result_set[1].query_id = query_id
        /\ result_set[1].state = STATE_SUCCEEDED
        /\ execs[query_id].state = STATE_SUCCEEDED

\* a cancel call was made on a cursor whose open result set had handed out
\* a row: the result set is still open and bound to the cursor's query id
C40_Witness ==
    /\ result_set # <<>> /\ ~is_closed(result_set[1])
    /\ fetched.call = "cancel"
    /\ Len(result_set[1].delivered) >= 1
    /\ result_set[1].query_id = query_id
    /\ execs[query_id].state = STATE_SUCCEEDED

====
